---- MODULE Spec2Model ----
(***************************************************************************)
(* Model of the filtering + deduplication core of the internship scraper   *)
(* and of the pipeline around it:                                          *)
(*   src/src/utils/deduplicator.py   (JobDeduplicator)                     *)
(*   src/src/filters/keyword_filter.py (KeywordFilter)                     *)
(*   src/src/main.py                 (InternshipScraper)                   *)
(*   src/src/supabase_uploader.py    (SupabaseUploader)                    *)
(*                                                                         *)
(* A Python string is a sequence of one-character strings.  A value read   *)
(* from a job dictionary is a record [k, s]: k is "absent" (the key is not *)
(* in the dictionary), "none" (None), "nan" (a float NaN) or "str" (a      *)
(* string, whose characters are s).  A relevance_score is a record [k, n]  *)
(* with k "absent" or "int".  The entries of unique_jobs and of            *)
(* filtered_jobs are references to the dictionaries of the input list:     *)
(* they are modelled as positions in `jobs`.                               *)
(***************************************************************************)
EXTENDS Integers, Sequences, FiniteSets, TLC

VARIABLES
    pc,                 \* position of the operation under way
    jobs,               \* the input list of the operation
    unique_jobs,        \* deduplicate: positions in jobs of the kept entries
    duplicates_found,   \* deduplicate: its counter
    pos,                \* deduplicate: position of the incoming job
    job1, job2,         \* are_jobs_duplicate: its arguments
    verdict,            \* are_jobs_duplicate: its result (is_duplicate, reason)
    config,             \* KeywordFilter: the loaded keyword configuration
    require_internship, \* filter_jobs: its flag
    filtered_jobs,      \* filter_jobs: the returned list, as positions in jobs
    scored,             \* calculate_relevance_score: its result (score, breakdown)
    internship,         \* is_internship: its result
    relevant,           \* is_relevant: its result
    statistics,         \* get_statistics: its result
    duplicates,         \* find_duplicates: its result
    called,             \* SpecCore: the operations called so far
    fetched,            \* run: the number of source adapters that returned
    stages,             \* run: the stages carried out so far, in order
    dedup_input,        \* run: the list handed to deduplicate
    cache,              \* run: the list written to the jobs cache file
    readme,             \* run: the list rendered into README.md
    exit_status,        \* run: the status of sys.exit, or 0
    document,           \* KeywordFilter: what is at config_path
    startup,            \* KeywordFilter: how its construction ended
    database,           \* Supabase: the ids stored in table intern_jobs
    stored_before,      \* upload_jobs: the ids stored when it was called
    existing_ids,       \* upload_jobs: the ids its lookup found
    new_jobs_count,     \* SupabaseUploader: its counter of new jobs
    uploaded_count,     \* SupabaseUploader: its counter of upserted rows
    error_count,        \* SupabaseUploader: its counter of failed uploads
    upload_at,          \* _upload_jobs_individually: position of the next job
    upload_result       \* upload_jobs: the number it returned

\* the results of is_internship and is_relevant
jobVars == <<internship, relevant>>
\* the results of get_statistics and find_duplicates, and the calls made
coreVars == <<statistics, duplicates, called>>

\* the state of a pipeline run
runVars == <<fetched, stages, dedup_input, cache, readme, exit_status>>

\* the construction of the KeywordFilter
startVars == <<document, startup>>

\* the state of the SupabaseUploader and of its table
uploadVars == <<database, stored_before, existing_ids, new_jobs_count,
                uploaded_count, error_count, upload_at, upload_result>>

\* the state outside the pipeline run
extVars == <<startVars, uploadVars>>

\* the results of the operations that the first four specifications below
\* do not call
auxVars == <<jobVars, coreVars, runVars, extVars>>

vars == <<pc, jobs, unique_jobs, duplicates_found, pos, job1, job2,
          verdict, config, require_internship, filtered_jobs, scored,
          auxVars>>

----------------------------------------------------------------------------
(* Bounds of the model.                                                    *)

\* longest input list of deduplicate
MaxJobs == 3
\* longest input list of filter_jobs
MaxFilterJobs == 3
\* largest relevance_score of a job handed to deduplicate
MaxScore == 1
\* longest list handed to the operations of SpecCore
MaxCoreJobs == 3
\* most jobs the source adapters return in one pipeline run
MaxRunJobs == 2
\* longest list handed to upload_jobs
MaxUploadJobs == 2

----------------------------------------------------------------------------
(* Python values and strings.                                              *)

Str(s) == [k |-> "str", s |-> s]
Absent == [k |-> "absent", s |-> <<>>]
None == [k |-> "none", s |-> <<>>]
NaN == [k |-> "nan", s |-> <<>>]

Score(n) == [k |-> "int", n |-> n]
NoScore == [k |-> "absent", n |-> 0]

Min(x, y) == IF x <= y THEN x ELSE y

\* the letters str.lower() changes, and what it makes of them
UpperLetters ==
    <<"A", "B", "C", "D", "E", "F", "G", "H", "I", "J", "K", "L", "M",
      "N", "O", "P", "Q", "R", "S", "T", "U", "V", "W", "X", "Y", "Z">>
LowerLetters ==
    <<"a", "b", "c", "d", "e", "f", "g", "h", "i", "j", "k", "l", "m",
      "n", "o", "p", "q", "r", "s", "t", "u", "v", "w", "x", "y", "z">>

\* str.lower() on one character
UpperToLower ==
    [c \in {UpperLetters[i] : i \in 1..Len(UpperLetters)} |->
        LowerLetters[CHOOSE i \in 1..Len(UpperLetters) : UpperLetters[i] = c]]

LowerChar(c) == IF c \in DOMAIN UpperToLower THEN UpperToLower[c] ELSE c

\* str.lower()
Lower(s) == [i \in 1..Len(s) |-> LowerChar(s[i])]

Whitespace == {" ", "\t", "\n"}

\* str.strip(): leading and trailing whitespace removed
Strip(s) ==
    LET keep == {i \in 1..Len(s) : s[i] \notin Whitespace}
    IN IF keep = {} THEN <<>>
       ELSE LET lo == CHOOSE i \in keep : \A j \in keep : i <= j
                hi == CHOOSE i \in keep : \A j \in keep : i >= j
            IN SubSeq(s, lo, hi)

\* str(value) of a present value
PyStr(v) ==
    CASE v.k = "str" -> v.s
      [] v.k = "none" -> <<"N", "o", "n", "e">>
      [] v.k = "nan" -> <<"n", "a", "n">>
      [] OTHER -> <<>>

\* `keyword in text`: keyword is a contiguous substring of text
Contains(text, keyword) ==
    \E i \in 0..(Len(text) - Len(keyword)) :
        \A j \in 1..Len(keyword) : text[i + j] = keyword[j]

----------------------------------------------------------------------------
(* difflib.SequenceMatcher(None, a, b).ratio(), as calculate_similarity    *)
(* uses it: no junk function, and the automatic junk heuristic applies     *)
(* only to a second string of 200 or more characters, longer than any      *)
(* string of the model.  Positions are 1-based, ranges are inclusive.      *)

\* a[i..i+k-1] = b[j..j+k-1]: a matching block of size k
Block(a, b, i, j, k) == \A d \in 0..(k - 1) : a[i + d] = b[j + d]

\* a[alo..ahi] and b[blo..bhi] hold a matching block of size k
HasBlock(a, b, alo, ahi, blo, bhi, k) ==
    \E i \in alo..(ahi - k + 1) : \E j \in blo..(bhi - k + 1) :
        Block(a, b, i, j, k)

\* SequenceMatcher.find_longest_match: the longest matching block of
\* a[alo..ahi] and b[blo..bhi] (`if k > bestsize` keeps the first block of
\* the largest size met, i ascending and then j ascending): of the longest
\* blocks the one that starts earliest in a, and of those the one that
\* starts earliest in b; (alo, blo, 0) when nothing matches
find_longest_match(a, b, alo, ahi, blo, bhi) ==
    LET m == Min(ahi - alo + 1, bhi - blo + 1)
        size == CHOOSE k \in 0..m :
                    /\ HasBlock(a, b, alo, ahi, blo, bhi, k)
                    /\ k = m \/ ~HasBlock(a, b, alo, ahi, blo, bhi, k + 1)
    IN IF size = 0 THEN [i |-> alo, j |-> blo, size |-> 0]
       ELSE LET Starts == {i \in alo..(ahi - size + 1) :
                              \E j \in blo..(bhi - size + 1) :
                                  Block(a, b, i, j, size)}
                besti == CHOOSE i \in Starts : \A i2 \in Starts : i <= i2
                Ends == {j \in blo..(bhi - size + 1) :
                            Block(a, b, besti, j, size)}
                bestj == CHOOSE j \in Ends : \A j2 \in Ends : j <= j2
            IN [i |-> besti, j |-> bestj, size |-> size]

\* SequenceMatcher.get_matching_blocks, summed: the longest block, then the
\* blocks of the pieces to its left and to its right
RECURSIVE MatchedChars(_, _, _, _, _, _)
MatchedChars(a, b, alo, ahi, blo, bhi) ==
    LET m == find_longest_match(a, b, alo, ahi, blo, bhi)
    IN IF m.size = 0 THEN 0
       ELSE m.size
            + (IF alo < m.i /\ blo < m.j
               THEN MatchedChars(a, b, alo, m.i - 1, blo, m.j - 1) ELSE 0)
            + (IF m.i + m.size <= ahi /\ m.j + m.size <= bhi
               THEN MatchedChars(a, b, m.i + m.size, ahi, m.j + m.size, bhi)
               ELSE 0)

\* SequenceMatcher.ratio(): 2.0 * matches / (len(a) + len(b)), and 1.0 for
\* two empty strings; kept as the fraction num / den
Ratio(a, b) ==
    IF Len(a) + Len(b) = 0 THEN [num |-> 1, den |-> 1]
    ELSE [num |-> 2 * MatchedChars(a, b, 1, Len(a), 1, Len(b)),
          den |-> Len(a) + Len(b)]

\* JobDeduplicator.calculate_similarity
calculate_similarity(str1, str2) == Ratio(Lower(str1), Lower(str2))

\* comparison of two fractions with positive denominators
RatioGeq(r, q) == r.num * q.den >= q.num * r.den
RatioEq(r, q) == r.num * q.den = q.num * r.den

\* JobDeduplicator.__init__: title_similarity_threshold = 0.85 = 85 / 100
ThresholdNum == 85
ThresholdDen == 100
title_threshold == [num |-> ThresholdNum, den |-> ThresholdDen]

----------------------------------------------------------------------------
(* JobDeduplicator.are_jobs_duplicate                                      *)

\* job.get('id'): None for a missing key
GetId(job) == IF job.id.k = "absent" THEN None ELSE job.id

\* id1 == id2: a NaN is equal to nothing, not even to itself
IdsEqual(id1, id2) == id1.k # "nan" /\ id1 = id2

\* str(raw).lower().strip() if raw not in [None, ''] else ''
\* (raw is job.get(field, ''): '' for a missing key)
Normalize(raw) ==
    IF raw.k \in {"absent", "none"} \/ (raw.k = "str" /\ raw.s = <<>>)
    THEN <<>>
    ELSE Strip(Lower(PyStr(raw)))

\* Invalid without the 'nan' sentinel
Invalid_NoNan == {<<"n", "o", "n", "e">>, <<>>}

\* the values `in ['nan', 'none', '']` rejects
Invalid == {<<"n", "a", "n">>, <<"n", "o", "n", "e">>, <<>>}

\* are_jobs_duplicate without its check of the titles' validity
are_jobs_duplicate_NoTitleCheck(j1, j2) ==
    LET company1 == Normalize(j1.company)
        company2 == Normalize(j2.company)
        title1 == Normalize(j1.title)
        title2 == Normalize(j2.title)
    IN IF IdsEqual(GetId(j1), GetId(j2))
       THEN [dup |-> TRUE, reason |-> "Exact ID match"]
       ELSE IF company1 \in Invalid \/ company2 \in Invalid
       THEN [dup |-> FALSE, reason |-> "Missing or invalid company"]
       ELSE IF company1 # company2
       THEN [dup |-> FALSE, reason |-> "Different companies"]
       ELSE IF title1 = title2
       THEN [dup |-> TRUE, reason |-> "Exact match"]
       ELSE IF RatioGeq(calculate_similarity(title1, title2), title_threshold)
       THEN [dup |-> TRUE, reason |-> "Similar titles"]
       ELSE [dup |-> FALSE, reason |-> "Different roles"]

\* are_jobs_duplicate with an id rule that needs an id
are_jobs_duplicate_IdRequired(j1, j2) ==
    LET company1 == Normalize(j1.company)
        company2 == Normalize(j2.company)
        title1 == Normalize(j1.title)
        title2 == Normalize(j2.title)
    IN IF GetId(j1) # None /\ IdsEqual(GetId(j1), GetId(j2))
       THEN [dup |-> TRUE, reason |-> "Exact ID match"]
       ELSE IF company1 \in Invalid \/ company2 \in Invalid
       THEN [dup |-> FALSE, reason |-> "Missing or invalid company"]
       ELSE IF company1 # company2
       THEN [dup |-> FALSE, reason |-> "Different companies"]
       ELSE IF title1 \in Invalid \/ title2 \in Invalid
       THEN [dup |-> FALSE, reason |-> "Missing or invalid title"]
       ELSE IF title1 = title2
       THEN [dup |-> TRUE, reason |-> "Exact match"]
       ELSE IF RatioGeq(calculate_similarity(title1, title2), title_threshold)
       THEN [dup |-> TRUE, reason |-> "Similar titles"]
       ELSE [dup |-> FALSE, reason |-> "Different roles"]

are_jobs_duplicate(j1, j2) ==
    LET company1 == Normalize(j1.company)
        company2 == Normalize(j2.company)
        title1 == Normalize(j1.title)
        title2 == Normalize(j2.title)
    IN IF IdsEqual(GetId(j1), GetId(j2))
       THEN [dup |-> TRUE, reason |-> "Exact ID match"]
       ELSE IF company1 \in Invalid \/ company2 \in Invalid
       THEN [dup |-> FALSE, reason |-> "Missing or invalid company"]
       ELSE IF company1 # company2
       THEN [dup |-> FALSE, reason |-> "Different companies"]
       ELSE IF title1 \in Invalid \/ title2 \in Invalid
       THEN [dup |-> FALSE, reason |-> "Missing or invalid title"]
       ELSE IF title1 = title2
       THEN [dup |-> TRUE, reason |-> "Exact match"]
       ELSE IF RatioGeq(calculate_similarity(title1, title2), title_threshold)
       THEN [dup |-> TRUE, reason |-> "Similar titles"]
       ELSE [dup |-> FALSE, reason |-> "Different roles"]

----------------------------------------------------------------------------
(* Jobs.                                                                   *)

NoBreakdown ==
    [k |-> "absent", title_matches |-> <<>>, title_excludes |-> <<>>,
     description_matches |-> <<>>, total_score |-> 0]

\* a job dictionary as a source adapter (or a caller) hands it over
Job(id, company, title, description, score) ==
    [id |-> id, company |-> company, title |-> title,
     description |-> description, relevance_score |-> score,
     score_breakdown |-> NoBreakdown]

\* job.get('relevance_score', 0)
GetScore(job) ==
    IF job.relevance_score.k = "absent" THEN 0 ELSE job.relevance_score.n

\* the list of dictionaries a list of references stands for
JobsAt(L, refs) == [i \in 1..Len(refs) |-> L[refs[i]]]

\* all lists of at most n elements of S
SeqUpTo(S, n) == UNION {[1..m -> S] : m \in 0..n}

----------------------------------------------------------------------------
(* JobDeduplicator.deduplicate                                             *)

\* list.remove(x) on unique_jobs: the first entry whose dictionary equals
\* the dictionary of reference x is removed
ListRemove(L, unique, x) ==
    LET i == CHOOSE i \in 1..Len(unique) :
                 /\ L[unique[i]] = L[x]
                 /\ \A j \in 1..(i - 1) : L[unique[j]] # L[x]
    IN SubSeq(unique, 1, i - 1) \o SubSeq(unique, i + 1, Len(unique))

\* KeepBetter without the append of the incoming job
KeepBetter_RemoveOnly(L, unique, p, e) ==
    IF GetScore(L[p]) > GetScore(L[e])
    THEN ListRemove(L, unique, e)
    ELSE unique

\* KeepBetter replacing also at equal scores
KeepBetter_OrEqual(L, unique, p, e) ==
    IF GetScore(L[p]) >= GetScore(L[e])
    THEN Append(ListRemove(L, unique, e), p)
    ELSE unique

\* KeepBetter keeping the lower score
KeepBetter_Lower(L, unique, p, e) ==
    IF GetScore(L[p]) < GetScore(L[e])
    THEN Append(ListRemove(L, unique, e), p)
    ELSE unique

\* KeepBetter putting the incoming job in the place of the removed entry
KeepBetter_InPlace(L, unique, p, e) ==
    IF GetScore(L[p]) > GetScore(L[e])
    THEN [i \in 1..Len(unique) |-> IF unique[i] = e THEN p ELSE unique[i]]
    ELSE unique

\* the branch `if job_score > existing_score` of the inner loop
KeepBetter(L, unique, p, e) ==
    IF GetScore(L[p]) > GetScore(L[e])
    THEN Append(ListRemove(L, unique, e), p)
    ELSE unique

\* InnerLoop without its break: every duplicate entry is handled
RECURSIVE InnerLoop_NoBreak(_, _, _, _)
InnerLoop_NoBreak(L, unique, p, k) ==
    IF k > Len(unique)
    THEN [unique |-> unique, is_duplicate |-> FALSE]
    ELSE IF are_jobs_duplicate(L[p], L[unique[k]]).dup
    THEN [unique |->
            InnerLoop_NoBreak(L, KeepBetter(L, unique, p, unique[k]), p,
                              k + 1).unique,
          is_duplicate |-> TRUE]
    ELSE InnerLoop_NoBreak(L, unique, p, k + 1)

\* the inner loop `for existing_job in unique_jobs` from entry k on, for the
\* incoming job L[p]; it ends at the first duplicate (break)
RECURSIVE InnerLoop(_, _, _, _)
InnerLoop(L, unique, p, k) ==
    IF k > Len(unique)
    THEN [unique |-> unique, is_duplicate |-> FALSE]
    ELSE IF are_jobs_duplicate(L[p], L[unique[k]]).dup
    THEN [unique |-> KeepBetter(L, unique, p, unique[k]),
          is_duplicate |-> TRUE]
    ELSE InnerLoop(L, unique, p, k + 1)

\* DedupIteration counting a duplicate only when the incoming job is skipped
DedupIteration_CountSkipped(L, st, p) ==
    LET r == InnerLoop(L, st.unique_jobs, p, 1)
    IN IF r.is_duplicate
       THEN [unique_jobs |-> r.unique,
             duplicates_found |->
                 IF r.unique = st.unique_jobs
                 THEN st.duplicates_found + 1 ELSE st.duplicates_found]
       ELSE [unique_jobs |-> Append(r.unique, p),
             duplicates_found |-> st.duplicates_found]

\* one iteration of `for job in jobs`, for the incoming job L[p]
DedupIteration(L, st, p) ==
    LET r == InnerLoop(L, st.unique_jobs, p, 1)
    IN IF r.is_duplicate
       THEN [unique_jobs |-> r.unique,
             duplicates_found |-> st.duplicates_found + 1]
       ELSE [unique_jobs |-> Append(r.unique, p),
             duplicates_found |-> st.duplicates_found]

\* the iterations for the incoming jobs L[p], L[p+1], ...
RECURSIVE DedupFrom(_, _, _)
DedupFrom(L, st, p) ==
    IF p > Len(L) THEN st
    ELSE DedupFrom(L, DedupIteration(L, st, p), p + 1)

\* deduplicate(jobs), as the references it returns
deduplicate_refs(L) ==
    IF L = <<>> THEN <<>>
    ELSE DedupFrom(L, [unique_jobs |-> <<>>, duplicates_found |-> 0],
                   1).unique_jobs

\* deduplicate(jobs), as the list it returns
deduplicate(L) == JobsAt(L, deduplicate_refs(L))

\* FindInner leaving the loop at the first duplicate of jobs[i]
RECURSIVE FindInner_Break(_, _, _, _)
FindInner_Break(L, i, j, acc) ==
    IF j > Len(L) THEN acc
    ELSE LET v == are_jobs_duplicate(L[i], L[j])
         IN IF v.dup
            THEN Append(acc, [job1 |-> i, job2 |-> j, reason |-> v.reason])
            ELSE FindInner_Break(L, i, j + 1, acc)

\* `for job2 in jobs[i+1:]` of find_duplicates, from position j on; an
\* entry holds the references of the two jobs and the reason
RECURSIVE FindInner(_, _, _, _)
FindInner(L, i, j, acc) ==
    IF j > Len(L) THEN acc
    ELSE LET v == are_jobs_duplicate(L[i], L[j])
         IN FindInner(L, i, j + 1,
                IF v.dup
                THEN Append(acc, [job1 |-> i, job2 |-> j, reason |-> v.reason])
                ELSE acc)

\* `for i, job1 in enumerate(jobs)` of find_duplicates, from position i on
RECURSIVE FindOuter(_, _, _)
FindOuter(L, i, acc) ==
    IF i > Len(L) THEN acc
    ELSE FindOuter(L, i + 1, FindInner(L, i, i + 1, acc))

\* JobDeduplicator.find_duplicates
find_duplicates(L) == FindOuter(L, 1, <<>>)

----------------------------------------------------------------------------
(* KeywordFilter                                                           *)

\* [k.lower() for k in ...]
LowerAll(list) == [i \in 1..Len(list) |-> Lower(list[i])]

\* self.config.get('minimum_match_score', 3)
DefaultMinimumScore == 3

\* KeywordFilter.__init__, from the loaded document `raw`
KeywordFilterInit(raw) ==
    [internship_keywords |-> LowerAll(raw.internship_keywords),
     include_title |-> LowerAll(raw.include_title),
     exclude_title |-> LowerAll(raw.exclude_title),
     include_description |-> LowerAll(raw.include_description),
     minimum_score |-> IF raw.minimum_match_score.k = "absent"
                       THEN DefaultMinimumScore
                       ELSE raw.minimum_match_score.n]

\* str(job.get(field, '')).lower()
FieldText(raw) == IF raw.k = "absent" THEN <<>> ELSE Lower(PyStr(raw))

\* is_internship checks internship_keywords[:3] against description[:500]
DescriptionKeywords == 3
DescriptionPrefix == 500

\* is_internship matching the keywords against the whole description
is_internship_WholeDescription(cfg, job) ==
    LET title == FieldText(job.title)
        description == FieldText(job.description)
        kws == cfg.internship_keywords
    IN \/ \E i \in 1..Len(kws) : Contains(title, kws[i])
       \/ \E i \in 1..Min(DescriptionKeywords, Len(kws)) :
              Contains(description, kws[i])

\* KeywordFilter.is_internship
is_internship(cfg, job) ==
    LET title == FieldText(job.title)
        description == FieldText(job.description)
        prefix == SubSeq(description, 1, Min(DescriptionPrefix, Len(description)))
        kws == cfg.internship_keywords
    IN \/ \E i \in 1..Len(kws) : Contains(title, kws[i])
       \/ \E i \in 1..Min(DescriptionKeywords, Len(kws)) : Contains(prefix, kws[i])

\* the weights of calculate_relevance_score
TitleWeight == 3
ExcludePenalty == 10
DescriptionWeight == 1

\* MatchLoop stopping at its first match
RECURSIVE MatchLoop_FirstOnly(_, _, _, _, _)
MatchLoop_FirstOnly(list, text, weight, i, acc) ==
    IF i > Len(list) THEN acc
    ELSE IF Contains(text, list[i])
    THEN [score |-> acc.score + weight, matches |-> Append(acc.matches, list[i])]
    ELSE MatchLoop_FirstOnly(list, text, weight, i + 1, acc)

\* `for keyword in list: if keyword in text: score += weight;
\* matches.append(keyword)`, from entry i on
RECURSIVE MatchLoop(_, _, _, _, _)
MatchLoop(list, text, weight, i, acc) ==
    IF i > Len(list) THEN acc
    ELSE MatchLoop(list, text, weight, i + 1,
            IF Contains(text, list[i])
            THEN [score |-> acc.score + weight,
                  matches |-> Append(acc.matches, list[i])]
            ELSE acc)

\* KeywordFilter.calculate_relevance_score: (score, breakdown)
calculate_relevance_score(cfg, job) ==
    LET title == FieldText(job.title)
        description == FieldText(job.description)
        t == MatchLoop(cfg.include_title, title, TitleWeight, 1,
                       [score |-> 0, matches |-> <<>>])
        e == MatchLoop(cfg.exclude_title, title, 0 - ExcludePenalty, 1,
                       [score |-> t.score, matches |-> <<>>])
        d == MatchLoop(cfg.include_description, description,
                       DescriptionWeight, 1,
                       [score |-> e.score, matches |-> <<>>])
    IN [score |-> d.score,
        breakdown |-> [k |-> "dict", title_matches |-> t.matches,
                       title_excludes |-> e.matches,
                       description_matches |-> d.matches,
                       total_score |-> d.score]]

\* is_relevant with a strict comparison
is_relevant_Strict(cfg, job) ==
    calculate_relevance_score(cfg, job).score > cfg.minimum_score

\* KeywordFilter.is_relevant
is_relevant(cfg, job) ==
    calculate_relevance_score(cfg, job).score >= cfg.minimum_score

\* the threshold test of filter_jobs, strict
MeetsThreshold_Strict(cfg, score) == score > cfg.minimum_score

\* `if score >= self.minimum_score` in filter_jobs
MeetsThreshold(cfg, score) == score >= cfg.minimum_score

\* FilterLoop without the is_internship test
RECURSIVE FilterLoop_NoInternshipTest(_, _, _, _)
FilterLoop_NoInternshipTest(cfg, require, st, i) ==
    IF i > Len(st.jobs) THEN st
    ELSE LET r == calculate_relevance_score(cfg, st.jobs[i])
         IN IF MeetsThreshold(cfg, r.score)
            THEN FilterLoop_NoInternshipTest(cfg, require,
                    [jobs |-> [st.jobs EXCEPT
                                 ![i].relevance_score = Score(r.score),
                                 ![i].score_breakdown = r.breakdown],
                     filtered |-> Append(st.filtered, i)],
                    i + 1)
            ELSE FilterLoop_NoInternshipTest(cfg, require, st, i + 1)

\* FilterLoop attaching the score and the breakdown before the threshold test
RECURSIVE FilterLoop_AttachFirst(_, _, _, _)
FilterLoop_AttachFirst(cfg, require, st, i) ==
    IF i > Len(st.jobs) THEN st
    ELSE IF require /\ ~is_internship(cfg, st.jobs[i])
    THEN FilterLoop_AttachFirst(cfg, require, st, i + 1)
    ELSE LET r == calculate_relevance_score(cfg, st.jobs[i])
             attached == [st.jobs EXCEPT
                            ![i].relevance_score = Score(r.score),
                            ![i].score_breakdown = r.breakdown]
         IN FilterLoop_AttachFirst(cfg, require,
                [jobs |-> attached,
                 filtered |-> IF MeetsThreshold(cfg, r.score)
                              THEN Append(st.filtered, i) ELSE st.filtered],
                i + 1)

\* the loop `for job in jobs` of filter_jobs from position i on; st holds the
\* dictionaries (a kept one gets its score attached) and the references kept
RECURSIVE FilterLoop(_, _, _, _)
FilterLoop(cfg, require, st, i) ==
    IF i > Len(st.jobs) THEN st
    ELSE IF require /\ ~is_internship(cfg, st.jobs[i])
    THEN FilterLoop(cfg, require, st, i + 1)
    ELSE LET r == calculate_relevance_score(cfg, st.jobs[i])
         IN IF MeetsThreshold(cfg, r.score)
            THEN FilterLoop(cfg, require,
                    [jobs |-> [st.jobs EXCEPT
                                 ![i].relevance_score = Score(r.score),
                                 ![i].score_breakdown = r.breakdown],
                     filtered |-> Append(st.filtered, i)],
                    i + 1)
            ELSE FilterLoop(cfg, require, st, i + 1)

\* InsertByScore putting the reference before the entries of equal score
InsertByScore_BeforeEqual(L, sorted, r) ==
    LET n == Cardinality({k \in 1..Len(sorted) :
                 L[sorted[k]].relevance_score.n > L[r].relevance_score.n})
    IN SubSeq(sorted, 1, n) \o <<r>> \o SubSeq(sorted, n + 1, Len(sorted))

\* a stable descending sort puts reference r behind the entries whose key is
\* not smaller
InsertByScore(L, sorted, r) ==
    LET n == Cardinality({k \in 1..Len(sorted) :
                 L[sorted[k]].relevance_score.n >= L[r].relevance_score.n})
    IN SubSeq(sorted, 1, n) \o <<r>> \o SubSeq(sorted, n + 1, Len(sorted))

\* filtered_jobs.sort(key=lambda x: x['relevance_score'], reverse=True):
\* list.sort is stable, also with reverse=True
RECURSIVE SortByScore(_, _, _, _)
SortByScore(L, refs, i, sorted) ==
    IF i > Len(refs) THEN sorted
    ELSE SortByScore(L, refs, i + 1, InsertByScore(L, sorted, refs[i]))

\* KeywordFilter.filter_jobs: the dictionaries after the call and the
\* references returned
filter_jobs(cfg, L, require) ==
    LET st == FilterLoop(cfg, require, [jobs |-> L, filtered |-> <<>>], 1)
    IN [jobs |-> st.jobs,
        filtered_jobs |-> SortByScore(st.jobs, st.filtered, 1, <<>>)]

\* job.get('score_breakdown', {}).get('title_matches', [])
TitleMatchesOf(job) ==
    IF job.score_breakdown.k = "absent" THEN <<>>
    ELSE job.score_breakdown.title_matches

\* keyword_counts[keyword] = keyword_counts.get(keyword, 0) + 1; the dict
\* keeps its keys in the order of their first insertion
CountKeyword(counts, keyword) ==
    IF \E n \in 1..Len(counts) : counts[n].keyword = keyword
    THEN [n \in 1..Len(counts) |->
             IF counts[n].keyword = keyword
             THEN [counts[n] EXCEPT !.count = @ + 1]
             ELSE counts[n]]
    ELSE Append(counts, [keyword |-> keyword, count |-> 1])

\* `for keyword in ...title_matches` of get_statistics, from entry i on
RECURSIVE CountKeywords(_, _, _)
CountKeywords(matches, i, counts) ==
    IF i > Len(matches) THEN counts
    ELSE CountKeywords(matches, i + 1, CountKeyword(counts, matches[i]))

\* `for job in jobs` of get_statistics, from position i on
RECURSIVE CountJobs(_, _, _)
CountJobs(L, i, counts) ==
    IF i > Len(L) THEN counts
    ELSE CountJobs(L, i + 1, CountKeywords(TitleMatchesOf(L[i]), 1, counts))

\* InsertByCount putting the item before the items of equal count
InsertByCount_BeforeEqual(sorted, item) ==
    LET n == Cardinality({k \in 1..Len(sorted) : sorted[k].count > item.count})
    IN SubSeq(sorted, 1, n) \o <<item>> \o SubSeq(sorted, n + 1, Len(sorted))

\* a stable descending sort puts an item behind the items whose count is
\* not smaller
InsertByCount(sorted, item) ==
    LET n == Cardinality({k \in 1..Len(sorted) : sorted[k].count >= item.count})
    IN SubSeq(sorted, 1, n) \o <<item>> \o SubSeq(sorted, n + 1, Len(sorted))

\* sorted(keyword_counts.items(), key=lambda x: x[1], reverse=True)
RECURSIVE SortByCount(_, _, _)
SortByCount(items, i, sorted) ==
    IF i > Len(items) THEN sorted
    ELSE SortByCount(items, i + 1, InsertByCount(sorted, items[i]))

\* the slice [:10] of the sorted keyword counts
TopKeywords == 10

\* sum(scores), min(scores), max(scores)
RECURSIVE SumScores(_, _)
SumScores(L, i) ==
    IF i > Len(L) THEN 0 ELSE L[i].relevance_score.n + SumScores(L, i + 1)
MinScoreOf(L) ==
    CHOOSE m \in {L[i].relevance_score.n : i \in 1..Len(L)} :
        \A i \in 1..Len(L) : m <= L[i].relevance_score.n
MaxScoreOf(L) ==
    CHOOSE m \in {L[i].relevance_score.n : i \in 1..Len(L)} :
        \A i \in 1..Len(L) : m >= L[i].relevance_score.n

\* an exception raised by get_statistics
StatisticsError(name) ==
    [k |-> name, total |-> 0, average_score |-> [num |-> 0, den |-> 1],
     score_range |-> <<0, 0>>, top_keywords |-> <<>>]

\* get_statistics on a list that is not empty; average_score is the
\* fraction sum(scores) / len(scores), top_keywords the dict in its key
\* order; a job without relevance_score makes j['relevance_score'] raise
StatisticsOf(L) ==
    IF \E i \in 1..Len(L) : L[i].relevance_score.k = "absent"
    THEN StatisticsError("KeyError")
    ELSE LET sorted == SortByCount(CountJobs(L, 1, <<>>), 1, <<>>)
         IN [k |-> "dict", total |-> Len(L),
             average_score |-> [num |-> SumScores(L, 1), den |-> Len(L)],
             score_range |-> <<MinScoreOf(L), MaxScoreOf(L)>>,
             top_keywords |-> SubSeq(sorted, 1, Min(TopKeywords, Len(sorted)))]

\* get_statistics without its test for an empty list: sum(scores) /
\* len(scores) divides by zero
get_statistics_NoEmptyTest(L) ==
    IF L = <<>> THEN StatisticsError("ZeroDivisionError") ELSE StatisticsOf(L)

\* KeywordFilter.get_statistics
get_statistics(L) ==
    IF L = <<>>
    THEN [k |-> "dict", total |-> 0, average_score |-> [num |-> 0, den |-> 1],
          score_range |-> <<0, 0>>, top_keywords |-> <<>>]
    ELSE StatisticsOf(L)

----------------------------------------------------------------------------
(* Inputs of the model.                                                    *)

IdPool == {Str(<<"1">>), Str(<<"2">>)}

\* "abc" ~ "abcd" ~ "abcde" (ratios 6/7 and 8/9) and "abc" /~ "abcde" (6/8)
TitleChain ==
    {Str(<<"a", "b", "c">>), Str(<<"a", "b", "c", "d">>),
     Str(<<"a", "b", "c", "d", "e">>)}

ScorePool == {NoScore} \cup {Score(n) : n \in 0..MaxScore}

\* the jobs handed to deduplicate
DedupPool ==
    {Job(id, Str(<<"x">>), title, Absent, score) :
        id \in IdPool, title \in TitleChain, score \in ScorePool}

\* values of a company or a title handed to are_jobs_duplicate
CompanyPool ==
    {Str(<<"x">>), Str(<<" ", "X", " ">>), Str(<<"y">>),
     Str(<<"N", "a", "N">>), Str(<<"N", "o", "n", "e">>), Str(<<" ">>),
     Str(<<>>), NaN, None, Absent,
     Str(<<"U", "n", "k", "n", "o", "w", "n">>)}

TitlePool ==
    TitleChain \cup
    {Str(<<" ", "A", "B", "C">>),
     Str(<<"a", "a", "a", "a", "a", "b", "a">>),
     Str(<<"a", "a", "b", "a", "a", "a", "b">>),
     Str(<<"n", "a", "n">>), Str(<<>>), NaN, None, Absent}

DuplicatePool ==
    {Job(id, company, title, Absent, NoScore) :
        id \in IdPool \cup {None, Absent},
        company \in CompanyPool, title \in TitlePool}

\* the keyword documents the filter is constructed from
RawConfigPool ==
    {[internship_keywords |-> <<<<"i", "n">>, <<"c", "o">>, <<"t", "r">>,
                                 <<"s", "u">>>>,
      include_title |-> <<<<"U", "X">>, <<"d">>>>,
      exclude_title |-> <<<<"s", "r">>>>,
      include_description |-> <<<<"f">>>>,
      minimum_match_score |-> Score(3)],
     [internship_keywords |-> <<<<"i", "n">>>>,
      include_title |-> <<<<"u", "x">>, <<"u", "x">>, <<"u">>>>,
      exclude_title |-> <<>>,
      include_description |-> <<<<"f">>, <<"i", "n">>>>,
      minimum_match_score |-> NoScore],
     [internship_keywords |-> <<<<"i", "n">>, <<"c", "o">>, <<"t", "r">>,
                                 <<"s", "u">>>>,
      include_title |-> <<<<"u", "x">>, <<"d">>>>,
      exclude_title |-> <<<<"s", "r">>, <<"u", "x">>>>,
      include_description |-> <<<<"f">>>>,
      minimum_match_score |-> Score(0 - 7)]}

FilterTitlePool ==
    {Str(<<"U", "X", " ", "i", "n">>),
     Str(<<"u", "x", " ", "d", " ", "i", "n">>),
     Str(<<"s", "r", " ", "u", "x", " ", "i", "n">>),
     Str(<<"u", "x">>)}

FilterDescriptionPool ==
    {Absent, Str(<<"F", " ", "s", "u">>), Str(<<"F", " ", "I", "N">>)}

\* the jobs handed to filter_jobs: as the adapters produce them, and one
\* that carries a score of an earlier pass
FilterPool ==
    {Job(Str(<<"1">>), Str(<<"x">>), title, description, NoScore) :
        title \in FilterTitlePool, description \in FilterDescriptionPool}
    \cup {Job(Str(<<"1">>), Str(<<"x">>), Str(<<"u", "x">>), Str(<<"f">>), Score(9))}

\* the jobs handed to calculate_relevance_score
ScoringPool ==
    {Job(Str(<<"1">>), Str(<<"x">>), title, description, NoScore) :
        title \in FilterTitlePool
                  \cup {Str(<<"d", " ", "s", "u">>), Str(<<>>), None, NaN, Absent},
        description \in FilterDescriptionPool \cup {Str(<<"u", "x">>), None}}

NoJob == Job(Absent, Absent, Absent, Absent, NoScore)
NoVerdict == [dup |-> FALSE, reason |-> "none"]
NoScored == [score |-> 0, breakdown |-> NoBreakdown]
NoConfig ==
    [internship_keywords |-> <<>>, include_title |-> <<>>,
     exclude_title |-> <<>>, include_description |-> <<>>,
     minimum_score |-> 0]
\* a predicate not called yet, and one that returned b
NotCalled == [called |-> FALSE, result |-> FALSE]
Returned(b) == [called |-> TRUE, result |-> b]

\* get_statistics not called yet
NoStatistics ==
    [k |-> "none", total |-> 0, average_score |-> [num |-> 0, den |-> 1],
     score_range |-> <<0, 0>>, top_keywords |-> <<>>]

\* is_internship and is_relevant have not been called
JobIdle ==
    /\ internship = NotCalled
    /\ relevant = NotCalled

\* get_statistics and find_duplicates have not been called
CoreIdle ==
    /\ statistics = NoStatistics
    /\ duplicates = <<>>
    /\ called = {}

\* a file not written yet, and a file holding the list L
NotWritten == [written |-> FALSE, jobs |-> <<>>]
Written(L) == [written |-> TRUE, jobs |-> L]

\* no pipeline run has started
RunIdle ==
    /\ fetched = 0
    /\ stages = <<>>
    /\ dedup_input = <<>>
    /\ cache = NotWritten
    /\ readme = NotWritten
    /\ exit_status = 0

\* nothing but the operation of the specification has been called
\* no KeywordFilter construction is modelled: the configuration is given
NoDocument == [kind |-> "none"]
NotStarted == [ended |-> "no", error |-> ""]
StartIdle ==
    /\ document = NoDocument
    /\ startup = NotStarted

\* upload_jobs has not returned
NoResult == [returned |-> FALSE, value |-> 0]
UploadIdle ==
    /\ database = {}
    /\ stored_before = {}
    /\ existing_ids = {}
    /\ new_jobs_count = 0
    /\ uploaded_count = 0
    /\ error_count = 0
    /\ upload_at = 0
    /\ upload_result = NoResult

ExtIdle == StartIdle /\ UploadIdle

AuxIdle == JobIdle /\ CoreIdle /\ RunIdle /\ ExtIdle

----------------------------------------------------------------------------
(* SpecDuplicate: are_jobs_duplicate applied to every pair of jobs.        *)

InitDuplicate ==
    /\ pc = "call"
    /\ job1 \in DuplicatePool
    /\ job2 \in DuplicatePool
    /\ verdict = NoVerdict
    /\ jobs = <<>>
    /\ unique_jobs = <<>>
    /\ duplicates_found = 0
    /\ pos = 0
    /\ config = NoConfig
    /\ require_internship = FALSE
    /\ filtered_jobs = <<>>
    /\ scored = NoScored
    /\ AuxIdle

AreJobsDuplicate ==
    /\ pc = "call"
    /\ verdict' = are_jobs_duplicate(job1, job2)
    /\ pc' = "done"
    /\ UNCHANGED <<jobs, unique_jobs, duplicates_found, pos, job1, job2,
                   config, require_internship, filtered_jobs, scored>>
    /\ UNCHANGED auxVars

NextDuplicate == AreJobsDuplicate

SpecDuplicate == InitDuplicate /\ [][NextDuplicate]_vars

----------------------------------------------------------------------------
(* SpecDedup: deduplicate run on every list of at most MaxJobs jobs, one   *)
(* iteration of its outer loop per step.                                   *)

InitDedup ==
    /\ pc = "call"
    /\ jobs \in SeqUpTo(DedupPool, MaxJobs)
    /\ unique_jobs = <<>>
    /\ duplicates_found = 0
    /\ pos = 0
    /\ job1 = NoJob
    /\ job2 = NoJob
    /\ verdict = NoVerdict
    /\ config = NoConfig
    /\ require_internship = FALSE
    /\ filtered_jobs = <<>>
    /\ scored = NoScored
    /\ AuxIdle

\* `if not jobs: return []`, else the initialisation of the locals
DedupEnter ==
    /\ pc = "call"
    /\ unique_jobs' = <<>>
    /\ duplicates_found' = 0
    /\ IF jobs = <<>>
       THEN pc' = "done" /\ pos' = 0
       ELSE pc' = "loop" /\ pos' = 1
    /\ UNCHANGED <<jobs, job1, job2, verdict, config, require_internship,
                   filtered_jobs, scored>>
    /\ UNCHANGED auxVars

\* one iteration of `for job in jobs`; after the last one, the return
DedupIterate ==
    /\ pc = "loop"
    /\ LET st == DedupIteration(jobs, [unique_jobs |-> unique_jobs,
                     duplicates_found |-> duplicates_found], pos)
       IN /\ unique_jobs' = st.unique_jobs
          /\ duplicates_found' = st.duplicates_found
    /\ IF pos = Len(jobs)
       THEN pc' = "done" /\ pos' = pos
       ELSE pc' = "loop" /\ pos' = pos + 1
    /\ UNCHANGED <<jobs, job1, job2, verdict, config, require_internship,
                   filtered_jobs, scored>>
    /\ UNCHANGED auxVars

NextDedup == DedupEnter \/ DedupIterate

SpecDedup == InitDedup /\ [][NextDedup]_vars

----------------------------------------------------------------------------
(* SpecFilter: filter_jobs run on every list of at most MaxFilterJobs      *)
(* jobs, under every keyword configuration of the pool.                    *)

InitFilter ==
    /\ pc = "call"
    /\ config \in {KeywordFilterInit(raw) : raw \in RawConfigPool}
    /\ require_internship \in BOOLEAN
    /\ jobs \in SeqUpTo(FilterPool, MaxFilterJobs)
    /\ filtered_jobs = <<>>
    /\ unique_jobs = <<>>
    /\ duplicates_found = 0
    /\ pos = 0
    /\ job1 = NoJob
    /\ job2 = NoJob
    /\ verdict = NoVerdict
    /\ scored = NoScored
    /\ AuxIdle

\* filter_jobs(jobs, require_internship): the loop, then the sort
FilterJobs ==
    /\ pc = "call"
    /\ LET r == filter_jobs(config, jobs, require_internship)
       IN /\ jobs' = r.jobs
          /\ filtered_jobs' = r.filtered_jobs
    /\ pc' = "done"
    /\ UNCHANGED <<unique_jobs, duplicates_found, pos, job1, job2, verdict,
                   config, require_internship, scored>>
    /\ UNCHANGED auxVars

NextFilter == FilterJobs

SpecFilter == InitFilter /\ [][NextFilter]_vars

----------------------------------------------------------------------------
(* SpecScore: calculate_relevance_score applied to every job of the pool,  *)
(* under every keyword configuration of the pool.                          *)

InitScore ==
    /\ pc = "call"
    /\ config \in {KeywordFilterInit(raw) : raw \in RawConfigPool}
    /\ job1 \in ScoringPool
    /\ scored = NoScored
    /\ job2 = NoJob
    /\ verdict = NoVerdict
    /\ jobs = <<>>
    /\ unique_jobs = <<>>
    /\ duplicates_found = 0
    /\ pos = 0
    /\ require_internship = FALSE
    /\ filtered_jobs = <<>>
    /\ AuxIdle

CalculateRelevanceScore ==
    /\ pc = "call"
    /\ scored' = calculate_relevance_score(config, job1)
    /\ pc' = "done"
    /\ UNCHANGED <<jobs, unique_jobs, duplicates_found, pos, job1, job2,
                   verdict, config, require_internship, filtered_jobs>>
    /\ UNCHANGED auxVars

NextScore == CalculateRelevanceScore

SpecScore == InitScore /\ [][NextScore]_vars

----------------------------------------------------------------------------
(* Properties of deduplicate (SpecDedup).                                  *)

\* the list deduplicate has returned
Output == JobsAt(jobs, unique_jobs)

\* the duplicate test on two input positions, incoming job first
Dup(L, i, j) == are_jobs_duplicate(L[i], L[j]).dup

\* pairs of distinct positions linked by the duplicate test in either order
Linked(L) ==
    UNION {{x, <<x[2], x[1]>>} :
           x \in {y \in (1..Len(L)) \X (1..Len(L)) :
                      y[1] < y[2] /\ (Dup(L, y[1], y[2]) \/ Dup(L, y[2], y[1]))}}

\* the positions reached from the positions S through chains of links
RECURSIVE Component(_, _)
Component(link, S) ==
    LET T == S \cup {x[2] : x \in {y \in link : y[1] \in S}}
    IN IF T = S THEN S ELSE Component(link, T)

\* the duplicate groups of the input: jobs linked directly or through a chain
Groups(L) ==
    LET link == Linked(L)
    IN {Component(link, {i}) : i \in 1..Len(L)}

\* the kept references that belong to group G
KeptOf(G) == {k \in 1..Len(unique_jobs) : unique_jobs[k] \in G}

\* group G is collapsed to exactly one job, of the highest score of G
CollapsedToBest(G) ==
    /\ Cardinality(KeptOf(G)) = 1
    /\ \A k \in KeptOf(G) : \A j \in G :
           GetScore(jobs[unique_jobs[k]]) >= GetScore(jobs[j])

\* every job of G passes the duplicate test against every earlier job of G
DirectGroup(L, G) == \A i \in G : \A j \in G : i < j => Dup(L, j, i)

\* C1 (as claimed): deduplicate(deduplicate(L)) = deduplicate(L): a second
\* pass over the returned list collapses nothing further.
C1_Idempotent ==
    pc = "done" => deduplicate(Output) = Output

\* C2 (as claimed): every duplicate group of the input (jobs linked directly
\* or through a chain by the duplicate test) is collapsed to exactly one job
\* of the output, and that job has the highest relevance_score of the group.
C2_EveryGroupCollapsed ==
    pc = "done" => \A G \in Groups(jobs) : CollapsedToBest(G)

\* a job of the highest score of group G is kept
BestKept(G) ==
    \E k \in KeptOf(G) : \A j \in G :
        GetScore(jobs[unique_jobs[k]]) >= GetScore(jobs[j])

\* C2 (amended): every duplicate group of the input keeps a job of the
\* highest relevance_score of the group (missing score counted as 0), and a
\* group in which every job passes the duplicate test directly against every
\* earlier job of the group is collapsed to exactly one job of the output.
C2_DirectGroupCollapsed ==
    pc = "done" =>
        \A G \in Groups(jobs) :
            /\ BestKept(G)
            /\ DirectGroup(jobs, G) => CollapsedToBest(G)

\* C2 witness: a direct group of three jobs has been collapsed to its third
\* job, which replaced an earlier entry.
C2_Witness ==
    /\ pc = "done"
    /\ Len(jobs) = 3
    /\ Groups(jobs) = {{1, 2, 3}}
    /\ DirectGroup(jobs, {1, 2, 3})
    /\ unique_jobs = <<3>>

\* the first entry of unique_jobs that is a duplicate of the incoming job
\* L[p], or 0
FirstMatch(L, unique, p) ==
    LET M == {k \in 1..Len(unique) : Dup(L, p, unique[k])}
    IN IF M = {} THEN 0 ELSE CHOOSE k \in M : \A m \in M : k <= m

\* unique without its entry k
WithoutEntry(unique, k) ==
    SubSeq(unique, 1, k - 1) \o SubSeq(unique, k + 1, Len(unique))

\* C3: an iteration looks only at the first entry of unique_jobs that passes
\* the duplicate test against the incoming job: with a strictly higher score
\* the incoming job is inserted (at the end) and that entry removed, with an
\* equal or lower score unique_jobs is unchanged, and no other entry changes;
\* without a match the incoming job is appended.
C3_FirstMatchWins ==
    [][pc = "loop" =>
         LET k == FirstMatch(jobs, unique_jobs, pos)
         IN IF k = 0
            THEN unique_jobs' = Append(unique_jobs, pos)
            ELSE IF GetScore(jobs[pos]) > GetScore(jobs[unique_jobs[k]])
            THEN unique_jobs' = Append(WithoutEntry(unique_jobs, k), pos)
            ELSE unique_jobs' = unique_jobs]_vars

\* C3 witness: the job handled last replaced its first match while a later
\* entry, also a duplicate of it, stayed in unique_jobs.
C3_Witness ==
    /\ pc = "done"
    /\ Len(jobs) = 3
    /\ unique_jobs = <<2, 3>>
    /\ Dup(jobs, 3, 1)
    /\ Dup(jobs, 3, 2)

\* C7: the kept references are positions of the input in strictly increasing
\* order: the output is a subsequence of the input, in the input's order.
C7_Subsequence ==
    /\ \A k \in 1..Len(unique_jobs) : unique_jobs[k] \in 1..Len(jobs)
    /\ \A k \in 1..(Len(unique_jobs) - 1) : unique_jobs[k] < unique_jobs[k + 1]

\* C7 witness: after a score replacement, two jobs survive.
C7_Witness ==
    /\ pc = "done"
    /\ Len(unique_jobs) = 2
    /\ unique_jobs[1] # 1
    /\ unique_jobs[2] = Len(jobs)
    /\ Dup(jobs, Len(jobs), 1)

\* the job at position p of the input is in the output
Kept(p) == \E k \in 1..Len(unique_jobs) : unique_jobs[k] = p

\* the pairs (incoming job, existing job) of DedupPool that pass the
\* duplicate test, computed once
PoolDuplicates ==
    UNION {IF are_jobs_duplicate(x[1], x[2]).dup THEN {x} ELSE {} :
           x \in DedupPool \X DedupPool}

\* as Dup, for the jobs of DedupPool
PoolDup(L, i, j) == <<L[i], L[j]>> \in PoolDuplicates

\* the jobs at positions p and q pass the duplicate test, in one order or
\* the other
EitherDup(L, p, q) == PoolDup(L, p, q) \/ PoolDup(L, q, p)

\* C24: deduplicate only under-merges: a job that passes the duplicate test
\* against no other job of the input (in neither order of the two jobs) is
\* in the output; every job of the input that is not in the output passes
\* the duplicate test against another job of the input whose
\* relevance_score (0 if missing) is at least its own; and the output of a
\* non-empty input is not empty.
C24_OnlyUnderMerges ==
    pc = "done" =>
        /\ \A p \in 1..Len(jobs) :
               (\A q \in 1..Len(jobs) : q # p => ~EitherDup(jobs, p, q))
               => Kept(p)
        /\ \A p \in 1..Len(jobs) :
               ~Kept(p) =>
                   \E q \in 1..Len(jobs) :
                       /\ q # p
                       /\ EitherDup(jobs, p, q)
                       /\ GetScore(jobs[q]) >= GetScore(jobs[p])
        /\ jobs # <<>> => unique_jobs # <<>>

\* C24 witness: of three jobs, one without any duplicate is kept, and of the
\* two others, duplicates of each other, the earlier one with the lower
\* score is dropped.
C24_Witness ==
    /\ pc = "done"
    /\ Len(jobs) = 3
    /\ \A q \in {1, 3} : ~EitherDup(jobs, 2, q)
    /\ Dup(jobs, 3, 1)
    /\ GetScore(jobs[3]) > GetScore(jobs[1])
    /\ unique_jobs = <<2, 3>>

\* the list is sorted by non-increasing relevance_score (0 if missing), as
\* filter_jobs returns it
SortedByScore(L) ==
    \A i \in 1..Len(L) : \A j \in 1..Len(L) :
        i < j => GetScore(L[i]) >= GetScore(L[j])

\* the first-seen representatives among the first n jobs of L: the jobs that
\* are no duplicate of an earlier representative
RECURSIVE FirstSeen(_, _)
FirstSeen(L, n) ==
    IF n = 0 THEN <<>>
    ELSE LET earlier == FirstSeen(L, n - 1)
         IN IF \E k \in 1..Len(earlier) : PoolDup(L, n, earlier[k])
            THEN earlier
            ELSE Append(earlier, n)

\* the jobs of the input handled so far
Handled ==
    CASE pc = "loop" -> pos - 1
      [] pc = "done" -> Len(jobs)
      [] OTHER -> 0

\* C25: on an input sorted by non-increasing relevance_score the replacement
\* branch never executes: after every iteration unique_jobs holds exactly
\* the first-seen representatives of the jobs handled so far (the jobs that
\* are no duplicate of an earlier surviving job), so no entry is ever
\* removed from it, and the output is this list for the whole input.
C25_SortedKeepsFirstSeen ==
    SortedByScore(jobs) => unique_jobs = FirstSeen(jobs, Handled)

\* C25 witness: a sorted input of three jobs with two different scores, of
\* which the last is a duplicate of the first and is dropped.
C25_Witness ==
    /\ pc = "done"
    /\ Len(jobs) = 3
    /\ SortedByScore(jobs)
    /\ GetScore(jobs[1]) > GetScore(jobs[3])
    /\ Dup(jobs, 3, 1)
    /\ unique_jobs = <<1, 2>>

\* C26: after every iteration the length of unique_jobs is the number of
\* jobs handled minus duplicates_found (each incoming job is appended, or
\* counted once as a duplicate and then swapped for its match or dropped);
\* at the end len(output) = len(input) - duplicates_found, so the number of
\* removed jobs the orchestrator logs is the deduplicator's own count.
C26_LengthAccounting ==
    /\ Len(unique_jobs) = Handled - duplicates_found
    /\ pc = "done" => Len(jobs) - Len(Output) = duplicates_found

\* C26 witness: three jobs were collapsed to the last one, which replaced
\* its match: two duplicates were counted.
C26_Witness ==
    /\ pc = "done"
    /\ Len(jobs) = 3
    /\ unique_jobs = <<3>>
    /\ duplicates_found = 2

\* C27: the output of deduplicate never holds two jobs with the same id,
\* whatever the input list and its order are.
C27_OneJobPerId ==
    pc = "done" =>
        \A k \in 1..Len(unique_jobs) : \A m \in 1..Len(unique_jobs) :
            k # m => GetId(jobs[unique_jobs[k]]) # GetId(jobs[unique_jobs[m]])

----------------------------------------------------------------------------
(* SpecIdless: deduplicate on lists of jobs of which some have no id.      *)

\* jobs without an id key, with the id None, with a NaN id and with an id,
\* of two companies with different titles
IdlessPool ==
    {Job(id, x[1], x[2], Absent, score) :
        id \in {Absent, None, NaN, Str(<<"1">>)},
        x \in {<<Str(<<"x">>), Str(<<"a", "b", "c">>)>>,
               <<Str(<<"y">>), Str(<<"a", "b", "c", "d", "e">>)>>},
        score \in {NoScore, Score(1)}}

InitIdless ==
    /\ pc = "call"
    /\ jobs \in SeqUpTo(IdlessPool, MaxJobs)
    /\ unique_jobs = <<>>
    /\ duplicates_found = 0
    /\ pos = 0
    /\ job1 = NoJob
    /\ job2 = NoJob
    /\ verdict = NoVerdict
    /\ config = NoConfig
    /\ require_internship = FALSE
    /\ filtered_jobs = <<>>
    /\ scored = NoScored
    /\ AuxIdle

SpecIdless == InitIdless /\ [][NextDedup]_vars

\* job.get('id') is None: the job has no id key, or its id is None
IdLess(job) == GetId(job) = None

\* the entries of unique_jobs the incoming job jobs[pos] is compared with:
\* all up to its first match
Met ==
    LET k == FirstMatch(jobs, unique_jobs, pos)
    IN IF k = 0 THEN 1..Len(unique_jobs) ELSE 1..k

\* C28: two jobs that both lack an id (no id key, or the id None) are judged
\* duplicates by the rule "Exact ID match", whatever their companies and
\* titles are; so when an incoming job without id is compared with an entry
\* of unique_jobs without id, that entry is its match and only one of the
\* two is in unique_jobs after the iteration.
C28_IdlessAreDuplicates ==
    [][pc = "loop" =>
         \A m \in Met :
             IdLess(jobs[pos]) /\ IdLess(jobs[unique_jobs[m]]) =>
                 /\ are_jobs_duplicate(jobs[pos], jobs[unique_jobs[m]]) =
                        [dup |-> TRUE, reason |-> "Exact ID match"]
                 /\ m = FirstMatch(jobs, unique_jobs, pos)
                 /\ ~(\E a \in 1..Len(unique_jobs') :
                        \E b \in 1..Len(unique_jobs') :
                            /\ unique_jobs'[a] = pos
                            /\ unique_jobs'[b] = unique_jobs[m])]_vars

\* C28 witness: a job without id key was compared with an entry whose id is
\* None, of another company and with another title, and replaced it.
C28_Witness ==
    /\ pc = "done"
    /\ Len(jobs) = 2
    /\ jobs[1].id = None /\ jobs[2].id = Absent
    /\ jobs[1].company # jobs[2].company
    /\ unique_jobs = <<2>>

----------------------------------------------------------------------------
(* Properties of are_jobs_duplicate (SpecDuplicate).                       *)

IsNanCompany(job) == Normalize(job.company) = <<"n", "a", "n">>

\* C4 (as claimed): the verdict does not depend on the order of the two
\* jobs, and calculate_similarity gives the same ratio in both orders.
C4_Symmetric ==
    pc = "done" =>
        /\ verdict.dup = are_jobs_duplicate(job2, job1).dup
        /\ RatioEq(calculate_similarity(PyStr(job1.title), PyStr(job2.title)),
                   calculate_similarity(PyStr(job2.title), PyStr(job1.title)))

\* C5 (as claimed): a pair with the company "nan" on either side is never
\* reported as a duplicate, whatever the other fields are.
C5_NanNeverDuplicate ==
    pc = "done" => (IsNanCompany(job1) \/ IsNanCompany(job2) => ~verdict.dup)

\* C5 (amended): a pair with the company "nan" on either side is reported as
\* a duplicate only when the two ids are equal.
C5_NanDuplicateOnlyById ==
    pc = "done" =>
        (IsNanCompany(job1) \/ IsNanCompany(job2) =>
            (verdict.dup <=> GetId(job1) = GetId(job2)))

\* C5 witness: both companies are "nan", the titles are equal and valid, the
\* ids differ, and the pair is judged not a duplicate.
C5_Witness ==
    /\ pc = "done"
    /\ IsNanCompany(job1) /\ IsNanCompany(job2)
    /\ job1.title = Str(<<"a", "b", "c">>) /\ job2.title = job1.title
    /\ GetId(job1) # GetId(job2)
    /\ ~verdict.dup

\* a company or title after string coercion, lower-casing and trimming is
\* none of "", "nan", "none"
Valid(raw) ==
    /\ raw.k \notin {"absent", "none"}
    /\ Strip(Lower(PyStr(raw))) \notin {<<>>, <<"n", "a", "n">>, <<"n", "o", "n", "e">>}

\* C6: the verdict is true exactly when the ids are equal, or else when both
\* companies are valid and equal after normalisation, both titles are valid,
\* and the titles are equal or their similarity ratio reaches the threshold;
\* the reason names the first rule that applied.
C6_RulesInOrder ==
    pc = "done" =>
        LET c1 == Strip(Lower(PyStr(job1.company)))
            c2 == Strip(Lower(PyStr(job2.company)))
            t1 == Strip(Lower(PyStr(job1.title)))
            t2 == Strip(Lower(PyStr(job2.title)))
            sameId == GetId(job1) = GetId(job2)
            companies == Valid(job1.company) /\ Valid(job2.company)
            titles == Valid(job1.title) /\ Valid(job2.title)
            similar == 100 * Ratio(t1, t2).num >= 85 * Ratio(t1, t2).den
        IN /\ verdict.dup <=>
                \/ sameId
                \/ companies /\ c1 = c2 /\ titles /\ (t1 = t2 \/ similar)
           /\ verdict.reason =
                CASE sameId -> "Exact ID match"
                  [] ~sameId /\ ~companies -> "Missing or invalid company"
                  [] ~sameId /\ companies /\ c1 # c2 -> "Different companies"
                  [] ~sameId /\ companies /\ c1 = c2 /\ ~titles ->
                        "Missing or invalid title"
                  [] ~sameId /\ companies /\ c1 = c2 /\ titles /\ t1 = t2 ->
                        "Exact match"
                  [] ~sameId /\ companies /\ c1 = c2 /\ titles /\ t1 # t2
                        /\ similar -> "Similar titles"
                  [] OTHER -> "Different roles"

\* C6 witness: equal valid companies and equal titles that are the sentinel
\* "nan": not a duplicate, for the invalid title.
C6_Witness ==
    /\ pc = "done"
    /\ GetId(job1) # GetId(job2)
    /\ job1.company = Str(<<"x">>) /\ job2.company = Str(<<" ", "X", " ">>)
    /\ job1.title = NaN /\ job2.title = Str(<<"n", "a", "n">>)
    /\ verdict = [dup |-> FALSE, reason |-> "Missing or invalid title"]

----------------------------------------------------------------------------
(* Properties of filter_jobs and calculate_relevance_score (SpecFilter).   *)

\* the score and the breakdown the Scorer computes for input position i
Computed(i) == calculate_relevance_score(config, jobs[i])

\* the input positions that pass both tests of filter_jobs
Passing ==
    {i \in 1..Len(jobs) :
        /\ Computed(i).score >= config.minimum_score
        /\ require_internship => is_internship(config, jobs[i])}

\* C8: filter_jobs returns exactly the input jobs whose score is at least
\* minimum_match_score and, when require_internship is set, that are
\* internships, each once; every returned job carries the computed score
\* and breakdown.
C8_FilterExact ==
    pc = "done" =>
        /\ {filtered_jobs[k] : k \in 1..Len(filtered_jobs)} = Passing
        /\ Len(filtered_jobs) = Cardinality(Passing)
        /\ \A i \in Passing :
              /\ jobs[i].relevance_score = Score(Computed(i).score)
              /\ jobs[i].score_breakdown = Computed(i).breakdown

\* C8 witness: of three jobs one is returned, with its score attached; one is
\* rejected for its score alone and one for not being an internship alone.
C8_Witness ==
    /\ pc = "done"
    /\ require_internship
    /\ Len(jobs) = 3
    /\ Len(filtered_jobs) = 1
    /\ jobs[filtered_jobs[1]].relevance_score.k = "int"
    /\ \E i \in 1..3 : /\ is_internship(config, jobs[i])
                       /\ Computed(i).score < config.minimum_score
    /\ \E i \in 1..3 : /\ ~is_internship(config, jobs[i])
                       /\ Computed(i).score >= config.minimum_score

\* C9: the returned list is in non-increasing order of relevance_score, and
\* jobs of equal score are in the order of the input.
C9_SortedStable ==
    pc = "done" =>
        \A k \in 1..Len(filtered_jobs) : \A m \in 1..Len(filtered_jobs) :
            k < m =>
                LET a == jobs[filtered_jobs[k]].relevance_score.n
                    b == jobs[filtered_jobs[m]].relevance_score.n
                IN a >= b /\ (a = b => filtered_jobs[k] < filtered_jobs[m])

\* C9 witness: the second input job has moved to the front, and the first
\* and third, of equal score, have kept their order.
C9_Witness ==
    /\ pc = "done"
    /\ filtered_jobs = <<2, 1, 3>>
    /\ jobs[1].relevance_score = jobs[3].relevance_score
    /\ jobs[1] # jobs[3]

\* the number of entries of a keyword list that are substrings of text
Matching(list, text) ==
    Cardinality({n \in 1..Len(list) : Contains(text, list[n])})

\* the entries of a keyword list that are substrings of text, in list order
MatchedOf(list, text) ==
    LET Test(k) == Contains(text, k) IN SelectSeq(list, Test)

\* keywords added to a list, to see the score move
ExtraKeywords == {<<"u", "x">>, <<"f">>, <<"i", "n">>, <<"z">>}

\* C10: the score is 3 times the matching include_title entries, minus 10
\* times the matching exclude_title entries, plus the matching
\* include_description entries; the breakdown lists hold the matched
\* entries in configured order and total_score is the score; one more
\* keyword in a list moves the score by 3, -10 or 1 when it matches and
\* leaves it unchanged when it does not.
C10_ScoreFormula ==
    pc = "done" =>
        LET title == Lower(PyStr(job1.title))
            description == Lower(PyStr(job1.description))
            With(field, kw) ==
                calculate_relevance_score(
                    [config EXCEPT ![field] = Append(@, kw)], job1).score
        IN /\ scored.score =
                  3 * Matching(config.include_title, title)
                  - 10 * Matching(config.exclude_title, title)
                  + Matching(config.include_description, description)
           /\ scored.breakdown.title_matches =
                  MatchedOf(config.include_title, title)
           /\ scored.breakdown.title_excludes =
                  MatchedOf(config.exclude_title, title)
           /\ scored.breakdown.description_matches =
                  MatchedOf(config.include_description, description)
           /\ scored.breakdown.total_score = scored.score
           /\ \A kw \in ExtraKeywords :
                 /\ With("include_title", kw) =
                        scored.score + (IF Contains(title, kw) THEN 3 ELSE 0)
                 /\ With("exclude_title", kw) =
                        scored.score - (IF Contains(title, kw) THEN 10 ELSE 0)
                 /\ With("include_description", kw) =
                        scored.score
                        + (IF Contains(description, kw) THEN 1 ELSE 0)

\* C10 witness: a job matched the duplicated include_title entry twice and a
\* third entry (3 + 3 + 3), and two include_description entries (1 + 1).
C10_Witness ==
    /\ pc = "done"
    /\ scored.score = 11
    /\ scored.breakdown.title_matches = <<<<"u", "x">>, <<"u", "x">>, <<"u">>>>
    /\ scored.breakdown.title_excludes = <<>>
    /\ scored.breakdown.description_matches = <<<<"f">>, <<"i", "n">>>>

----------------------------------------------------------------------------
(* SpecJob: is_internship, is_relevant and filter_jobs called on one job,  *)
(* in any order, under every keyword configuration of the pool.            *)

\* n blanks
Pad(n) == [i \in 1..n |-> " "]

\* a keyword document whose keywords occur in str(None) and str(nan)
SentinelConfig ==
    [internship_keywords |-> <<<<"o", "n">>>>,
     include_title |-> <<<<"n", "o">>>>,
     exclude_title |-> <<<<"a", "n">>>>,
     include_description |-> <<<<"n">>>>,
     minimum_match_score |-> NoScore]

JobConfigPool == RawConfigPool \cup {SentinelConfig}

\* titles with and without keywords, and malformed ones
JobTitlePool ==
    FilterTitlePool
    \cup {Str(<<"d", " ", "s", "u">>), Str(<<"s", "e">>), Str(<<>>),
          None, NaN, Absent}

\* descriptions with a keyword that ends at character DescriptionPrefix,
\* that straddles it and that starts behind it, and malformed ones
JobDescriptionPool ==
    FilterDescriptionPool
    \cup {Str(<<"u", "x">>), None, NaN,
          Str(Pad(DescriptionPrefix - 2) \o <<"i", "n">>),
          Str(Pad(DescriptionPrefix - 1) \o <<"i", "n">>),
          Str(Pad(DescriptionPrefix) \o <<"i", "n">>)}

JobPool ==
    {Job(Str(<<"1">>), Str(<<"x">>), title, description, NoScore) :
        title \in JobTitlePool, description \in JobDescriptionPool}

InitJob ==
    /\ pc = "call"
    /\ config \in {KeywordFilterInit(raw) : raw \in JobConfigPool}
    /\ job1 \in JobPool
    /\ jobs = <<job1>>
    /\ require_internship \in BOOLEAN
    /\ filtered_jobs = <<>>
    /\ internship = NotCalled
    /\ relevant = NotCalled
    /\ CoreIdle
    /\ scored = NoScored
    /\ job2 = NoJob
    /\ verdict = NoVerdict
    /\ unique_jobs = <<>>
    /\ duplicates_found = 0
    /\ pos = 0
    /\ RunIdle
    /\ ExtIdle

\* is_internship(job)
IsInternship ==
    /\ ~internship.called
    /\ internship' = Returned(is_internship(config, job1))
    /\ UNCHANGED <<pc, jobs, unique_jobs, duplicates_found, pos, job1, job2,
                   verdict, config, require_internship, filtered_jobs,
                   scored, relevant, coreVars>>
    /\ UNCHANGED <<runVars, extVars>>

\* is_relevant(job)
IsRelevant ==
    /\ ~relevant.called
    /\ relevant' = Returned(is_relevant(config, job1))
    /\ UNCHANGED <<pc, jobs, unique_jobs, duplicates_found, pos, job1, job2,
                   verdict, config, require_internship, filtered_jobs,
                   scored, internship, coreVars>>
    /\ UNCHANGED <<runVars, extVars>>

NextJob == IsInternship \/ IsRelevant \/ FilterJobs

SpecJob == InitJob /\ [][NextJob]_vars

----------------------------------------------------------------------------
(* Properties of is_relevant and is_internship (SpecJob).                  *)

\* the score of the job of SpecJob
JobScore == calculate_relevance_score(config, job1).score

\* C11: is_relevant is true exactly when the score of the job is >= the
\* minimum score (true at the minimum, false at one below it), and it
\* agrees with the job being returned by filter_jobs([job], False).
C11_RelevantAtThreshold ==
    relevant.called =>
        /\ relevant.result <=> JobScore >= config.minimum_score
        /\ JobScore = config.minimum_score => relevant.result
        /\ JobScore = config.minimum_score - 1 => ~relevant.result
        /\ pc = "done" /\ ~require_internship =>
               (relevant.result <=> filtered_jobs = <<1>>)

\* C11 witness: a job scoring exactly the minimum is relevant and is
\* returned by filter_jobs([job], False).
C11_Witness ==
    /\ relevant = Returned(TRUE)
    /\ JobScore = config.minimum_score
    /\ pc = "done" /\ ~require_internship
    /\ filtered_jobs = <<1>>

\* keyword kw stands in text at the characters i .. i + Len(kw) - 1
OccursAt(text, kw, i) ==
    /\ i >= 1
    /\ i + Len(kw) - 1 <= Len(text)
    /\ \A j \in 1..Len(kw) : text[i + j - 1] = kw[j]

\* some internship keyword is a substring of the lower-cased title
TitleHit ==
    \E title \in {FieldText(job1.title)} :
        \E k \in 1..Len(config.internship_keywords) :
            \E i \in 1..(Len(title) + 1) :
                OccursAt(title, config.internship_keywords[k], i)

\* one of the first three internship keywords stands in the lower-cased
\* description and ends at character 500 or before
DescriptionHit ==
    \E description \in {FieldText(job1.description)} :
        \E k \in 1..Len(config.internship_keywords) :
            /\ k <= 3
            /\ \E i \in 1..(Len(description) + 1) :
                   /\ i + Len(config.internship_keywords[k]) - 1 <= 500
                   /\ OccursAt(description, config.internship_keywords[k], i)

\* C12: is_internship is true exactly when an internship keyword is a
\* substring of the lower-cased title, or one of the first three internship
\* keywords is a substring of the first 500 characters of the lower-cased
\* description; a later keyword, or a match that starts or ends behind
\* character 500, in the description alone does not make it true.
C12_InternshipExact ==
    internship.called => (internship.result <=> TitleHit \/ DescriptionHit)

\* C12 witness: the title holds no keyword and the description holds the
\* first keyword in its characters 499 and 500: an internship.
C12_Witness ==
    /\ internship = Returned(TRUE)
    /\ ~TitleHit
    /\ job1.description = Str(Pad(498) \o <<"i", "n">>)

\* some include_title keyword is a substring of the lower-cased title
IncludeHit ==
    \E title \in {FieldText(job1.title)} :
        \E k \in 1..Len(config.include_title) :
            \E i \in 1..(Len(title) + 1) :
                OccursAt(title, config.include_title[k], i)

\* C13 (as claimed): a job whose title holds no internship keyword and no
\* include keyword is no internship and is left out by
\* filter_jobs(require_internship=True), whatever its description is.
C13_TitleAloneDecides ==
    ~TitleHit /\ ~IncludeHit =>
        /\ internship.called => ~internship.result
        /\ pc = "done" /\ require_internship => filtered_jobs = <<>>

\* C13 (amended): a job whose title holds no internship keyword and whose
\* description holds none of the first three internship keywords in its
\* first 500 characters is no internship and is left out by
\* filter_jobs(require_internship=True), whatever its score is.
C13_NoInternshipExcluded ==
    ~TitleHit /\ ~DescriptionHit =>
        /\ internship.called => ~internship.result
        /\ pc = "done" /\ require_internship => filtered_jobs = <<>>

\* C13 witness: a job that reaches the minimum score, with no internship
\* keyword in its title or its description, is no internship and has been
\* left out by filter_jobs(require_internship=True).
C13_Witness ==
    /\ ~TitleHit /\ ~DescriptionHit
    /\ JobScore >= config.minimum_score
    /\ internship = Returned(FALSE)
    /\ pc = "done" /\ require_internship
    /\ filtered_jobs = <<>>

\* a field value that is absent, None or no string
Malformed(raw) == raw.k # "str"

\* the job with its malformed title and description replaced by ''
AsEmpty(job) ==
    [job EXCEPT
        !.title = IF Malformed(job.title) THEN Str(<<>>) ELSE job.title,
        !.description = IF Malformed(job.description) THEN Str(<<>>)
                        ELSE job.description]

\* C14 (as claimed): an absent, None or non-string title or description is
\* matched as an empty value: is_internship, is_relevant and the score and
\* breakdown attached by filter_jobs are those of the job with the
\* malformed field empty, under every keyword configuration.
C14_MalformedAsEmpty ==
    /\ internship.called =>
           internship.result = is_internship(config, AsEmpty(job1))
    /\ relevant.called =>
           relevant.result = is_relevant(config, AsEmpty(job1))
    /\ pc = "done" =>
           LET r == filter_jobs(config, <<AsEmpty(job1)>>, require_internship)
           IN /\ filtered_jobs = r.filtered_jobs
              /\ jobs[1].relevance_score = r.jobs[1].relevance_score
              /\ jobs[1].score_breakdown = r.jobs[1].score_breakdown

----------------------------------------------------------------------------
(* The company sentinel of the source adapters (SpecDuplicate).            *)

\* the company of the job is the adapters' sentinel "Unknown"
IsUnknownCompany(job) ==
    job.company = Str(<<"U", "n", "k", "n", "o", "w", "n">>)

\* C15 (as claimed): two jobs with different ids whose company is the
\* sentinel "Unknown" are never judged duplicates, whatever their titles.
C15_UnknownNeverDuplicate ==
    pc = "done" =>
        (/\ IsUnknownCompany(job1) /\ IsUnknownCompany(job2)
         /\ GetId(job1) # GetId(job2)
         => ~verdict.dup)

----------------------------------------------------------------------------
(* SpecCore: get_statistics, find_duplicates, filter_jobs and deduplicate  *)
(* each called once, in any order, on one list of at most MaxCoreJobs jobs.*)

\* a score_breakdown as filter_jobs attaches it, with the title matches tm
Breakdown(tm, total) ==
    [k |-> "dict", title_matches |-> tm, title_excludes |-> <<>>,
     description_matches |-> <<>>, total_score |-> total]

\* a job that carries the score and the breakdown of an earlier pass
ScoredJob(id, company, title, score, tm) ==
    [Job(id, company, title, Absent, Score(score)) EXCEPT
        !.score_breakdown = Breakdown(tm, score)]

\* scored jobs whose title matches hold twelve keywords, one of them three
\* times and one twice; a scored job without a breakdown; an unscored job
CorePool ==
    {ScoredJob(Str(<<"1">>), Str(<<"x">>), Str(<<"U", "X", " ", "i", "n">>), 2,
               <<<<"a">>, <<"b">>, <<"c">>, <<"d">>, <<"e">>, <<"f">>>>),
     ScoredJob(Str(<<"2">>), Str(<<"x">>), Str(<<"u", "x", " ", "i", "n">>), 1,
               <<<<"g">>, <<"h">>, <<"i">>, <<"j">>, <<"k">>, <<"l">>>>),
     ScoredJob(Str(<<"1">>), Str(<<"y">>),
               Str(<<"s", "r", " ", "u", "x", " ", "i", "n">>), 2,
               <<<<"l">>, <<"a">>, <<"l">>>>),
     ScoredJob(Str(<<"3">>), Str(<<"x">>), Str(<<"u", "x", " ", "i", "n", "s">>),
               0, <<>>),
     Job(Str(<<"4">>), Str(<<"x">>), Str(<<"d", " ", "s", "u">>), Absent,
         Score(3)),
     Job(Str(<<"5">>), Str(<<"y">>), Str(<<"u", "x">>), Str(<<"f">>), NoScore)}

InitCore ==
    /\ pc = "core"
    /\ config \in {KeywordFilterInit(raw) : raw \in RawConfigPool}
    /\ require_internship \in BOOLEAN
    /\ jobs \in SeqUpTo(CorePool, MaxCoreJobs)
    /\ filtered_jobs = <<>>
    /\ unique_jobs = <<>>
    /\ duplicates_found = 0
    /\ statistics = NoStatistics
    /\ duplicates = <<>>
    /\ called = {}
    /\ pos = 0
    /\ job1 = NoJob
    /\ job2 = NoJob
    /\ verdict = NoVerdict
    /\ scored = NoScored
    /\ JobIdle
    /\ RunIdle
    /\ ExtIdle

\* get_statistics(jobs)
GetStatistics ==
    /\ pc = "core"
    /\ "get_statistics" \notin called
    /\ statistics' = get_statistics(jobs)
    /\ called' = called \cup {"get_statistics"}
    /\ UNCHANGED <<pc, jobs, unique_jobs, duplicates_found, pos, job1, job2,
                   verdict, config, require_internship, filtered_jobs,
                   scored, jobVars, duplicates>>
    /\ UNCHANGED <<runVars, extVars>>

\* find_duplicates(jobs)
FindDuplicates ==
    /\ pc = "core"
    /\ "find_duplicates" \notin called
    /\ duplicates' = find_duplicates(jobs)
    /\ called' = called \cup {"find_duplicates"}
    /\ UNCHANGED <<pc, jobs, unique_jobs, duplicates_found, pos, job1, job2,
                   verdict, config, require_internship, filtered_jobs,
                   scored, jobVars, statistics>>
    /\ UNCHANGED <<runVars, extVars>>

\* filter_jobs(jobs, require_internship)
CoreFilterJobs ==
    /\ pc = "core"
    /\ "filter_jobs" \notin called
    /\ LET r == filter_jobs(config, jobs, require_internship)
       IN /\ jobs' = r.jobs
          /\ filtered_jobs' = r.filtered_jobs
    /\ called' = called \cup {"filter_jobs"}
    /\ UNCHANGED <<pc, unique_jobs, duplicates_found, pos, job1, job2,
                   verdict, config, require_internship, scored, jobVars,
                   statistics, duplicates>>
    /\ UNCHANGED <<runVars, extVars>>

\* deduplicate(jobs)
CoreDeduplicate ==
    /\ pc = "core"
    /\ "deduplicate" \notin called
    /\ unique_jobs' = deduplicate_refs(jobs)
    /\ duplicates_found' =
           IF jobs = <<>> THEN 0
           ELSE DedupFrom(jobs, [unique_jobs |-> <<>>, duplicates_found |-> 0],
                          1).duplicates_found
    /\ called' = called \cup {"deduplicate"}
    /\ UNCHANGED <<pc, jobs, pos, job1, job2, verdict, config,
                   require_internship, filtered_jobs, scored, jobVars,
                   statistics, duplicates>>
    /\ UNCHANGED <<runVars, extVars>>

NextCore == GetStatistics \/ FindDuplicates \/ CoreFilterJobs \/ CoreDeduplicate

SpecCore == InitCore /\ [][NextCore]_vars

----------------------------------------------------------------------------
(* Properties of the operations on a list (SpecCore).                      *)

\* C16: on an empty list get_statistics returns exactly {total: 0,
\* average_score: 0, score_range: (0, 0), top_keywords: {}}, and
\* filter_jobs, deduplicate and find_duplicates return the empty list;
\* none of them raises.
C16_EmptyResults ==
    jobs = <<>> =>
        /\ "get_statistics" \in called =>
               /\ statistics.k = "dict"
               /\ statistics.total = 0
               /\ statistics.average_score.num = 0
               /\ statistics.score_range = <<0, 0>>
               /\ statistics.top_keywords = <<>>
        /\ "filter_jobs" \in called => filtered_jobs = <<>>
        /\ "deduplicate" \in called => unique_jobs = <<>>
        /\ "find_duplicates" \in called => duplicates = <<>>

\* C16 witness: the four operations have returned on the empty list, and
\* get_statistics returned its dictionary of zeros.
C16_Witness ==
    /\ jobs = <<>>
    /\ called = {"get_statistics", "filter_jobs", "deduplicate",
                 "find_duplicates"}
    /\ statistics.k = "dict" /\ statistics.total = 0

\* the positions <<i, j>> of the title matches of the list L
MatchPositions(L) ==
    UNION {{<<i, j>> : j \in 1..Len(TitleMatchesOf(L[i]))} : i \in 1..Len(L)}

\* the keyword at a position, and the keywords of the list
KeywordAt(L, x) == TitleMatchesOf(L[x[1]])[x[2]]
KeywordsOf(L) == {KeywordAt(L, x) : x \in MatchPositions(L)}

\* the number of occurrences of a keyword over all title matches
Occurrences(L, kw) ==
    Cardinality({x \in MatchPositions(L) : KeywordAt(L, x) = kw})

\* keyword kw1 is seen before keyword kw2 in the scan of the list
SeenBefore(L, kw1, kw2) ==
    \E x \in MatchPositions(L) :
        /\ KeywordAt(L, x) = kw1
        /\ \A y \in MatchPositions(L) :
               KeywordAt(L, y) = kw2 =>
                   x[1] < y[1] \/ (x[1] = y[1] /\ x[2] < y[2])

\* st is what C17 says of the statistics of the scored list L
StatisticsExact(L, st) ==
    LET top == st.top_keywords
        kws == KeywordsOf(L)
    IN /\ st.k = "dict"
       /\ st.total = Len(L)
       /\ \A i \in 1..Len(L) :
              /\ st.score_range[1] <= L[i].relevance_score.n
              /\ st.score_range[2] >= L[i].relevance_score.n
       /\ \E i \in 1..Len(L) : st.score_range[1] = L[i].relevance_score.n
       /\ \E i \in 1..Len(L) : st.score_range[2] = L[i].relevance_score.n
       /\ Len(top) <= 10
       /\ Len(top) = 10 \/ Len(top) = Cardinality(kws)
       /\ \A m \in 1..Len(top) :
              /\ top[m].keyword \in kws
              /\ top[m].count = Occurrences(L, top[m].keyword)
       /\ \A m \in 1..Len(top) : \A n \in 1..Len(top) :
              m < n =>
                  \/ top[m].count > top[n].count
                  \/ /\ top[m].count = top[n].count
                     /\ SeenBefore(L, top[m].keyword, top[n].keyword)
       /\ \A kw \in kws :
              (\A m \in 1..Len(top) : top[m].keyword # kw) =>
                  \A m \in 1..Len(top) : top[m].count >= Occurrences(L, kw)

\* every job of the list carries a relevance_score
IsScored(L) == L # <<>> /\ \A i \in 1..Len(L) : L[i].relevance_score.k = "int"

\* C17: a call of get_statistics on a non-empty scored list returns total =
\* the number of jobs, score_range = (lowest, highest score) and as
\* top_keywords at most 10 title-match keywords, each with its number of
\* occurrences over the title matches of all jobs, by non-increasing count
\* and with equal counts in first-seen order; no keyword left out has a
\* higher count than one included.
C17_StatisticsExact ==
    [][("get_statistics" \in called' \ called) /\ IsScored(jobs) =>
           StatisticsExact(jobs, statistics')]_vars

\* C17 witness: get_statistics has returned the 10 most frequent of the 12
\* title-match keywords of a scored list, the keyword with three
\* occurrences first and the one with two occurrences second.
C17_Witness ==
    /\ called = {"get_statistics"}
    /\ IsScored(jobs)
    /\ Cardinality(KeywordsOf(jobs)) = 12
    /\ Len(statistics.top_keywords) = 10
    /\ statistics.top_keywords[1] = [keyword |-> <<"l">>, count |-> 3]
    /\ statistics.top_keywords[2] = [keyword |-> <<"a">>, count |-> 2]
    /\ statistics.top_keywords[3].keyword = <<"g">>

\* the pairs of positions i < j whose jobs pass the duplicate test, the
\* earlier job first
DuplicatePairs(L) ==
    UNION {{x} : x \in {y \in (1..Len(L)) \X (1..Len(L)) :
                           y[1] < y[2] /\ Dup(L, y[1], y[2])}}

\* C18: a call of find_duplicates returns exactly one entry for every pair
\* of positions i < j with are_jobs_duplicate(jobs[i], jobs[j]), with the
\* reason of that test, in scan order (by i, then by j), also when a job
\* has several duplicates, and leaves the list and its jobs unchanged.
C18_FindDuplicatesExact ==
    [][("find_duplicates" \in called' \ called) =>
           /\ jobs' = jobs
           /\ {<<duplicates'[n].job1, duplicates'[n].job2>> :
                  n \in 1..Len(duplicates')} = DuplicatePairs(jobs)
           /\ Len(duplicates') = Cardinality(DuplicatePairs(jobs))
           /\ \A n \in 1..Len(duplicates') :
                  duplicates'[n].reason =
                      are_jobs_duplicate(jobs[duplicates'[n].job1],
                                         jobs[duplicates'[n].job2]).reason
           /\ \A m \in 1..Len(duplicates') : \A n \in 1..Len(duplicates') :
                  m < n =>
                      \/ duplicates'[m].job1 < duplicates'[n].job1
                      \/ /\ duplicates'[m].job1 = duplicates'[n].job1
                         /\ duplicates'[m].job2 < duplicates'[n].job2]_vars

\* C18 witness: find_duplicates has returned two entries for the first job
\* of the list, which has two duplicates behind it.
C18_Witness ==
    /\ "find_duplicates" \in called
    /\ Len(jobs) = 3
    /\ Len(duplicates) = 2
    /\ duplicates[1].job1 = 1 /\ duplicates[1].job2 = 2
    /\ duplicates[2].job1 = 1 /\ duplicates[2].job2 = 3

\* the positions a list of references names
Referenced(refs) == {refs[n] : n \in 1..Len(refs)}

\* job b is job a with nothing changed but relevance_score and
\* score_breakdown
OnlyScoreAttached(a, b) ==
    b = [a EXCEPT !.relevance_score = b.relevance_score,
                  !.score_breakdown = b.score_breakdown]

\* C19: a call of filter_jobs changes nothing of the jobs but the
\* relevance_score and the score_breakdown of the jobs it returns (a job it
\* rejects is left exactly as given), and a call of deduplicate changes no
\* job and not its input list.
C19_OnlyScoresAttached ==
    [][/\ ("filter_jobs" \in called' \ called) =>
              /\ Len(jobs') = Len(jobs)
              /\ \A i \in 1..Len(jobs) :
                     IF i \in Referenced(filtered_jobs')
                     THEN OnlyScoreAttached(jobs[i], jobs'[i])
                     ELSE jobs'[i] = jobs[i]
       /\ ("deduplicate" \in called' \ called) => jobs' = jobs]_vars

\* C19 witness: filter_jobs and deduplicate have been called; a job was
\* kept and got its score, and a rejected job still has none.
C19_Witness ==
    /\ {"filter_jobs", "deduplicate"} \subseteq called
    /\ \E i \in Referenced(filtered_jobs) :
           /\ jobs[i].relevance_score.k = "int"
           /\ jobs[i].score_breakdown.k = "dict"
    /\ \E i \in 1..Len(jobs) :
           /\ i \notin Referenced(filtered_jobs)
           /\ jobs[i].relevance_score.k = "absent"
           /\ jobs[i].score_breakdown.k = "absent"
    /\ unique_jobs # <<>>

----------------------------------------------------------------------------
(* SpecRun: InternshipScraper.run (src/src/main.py), one stage per step.   *)
(* A source adapter returns no job or one job; a stage that reads or       *)
(* writes outside the process can raise, which run catches.                *)

\* the source adapters scrape_all_sources calls, one after the other
Sources == 12

\* scrape_all_sources returns when the last adapter has returned
AllFetched_ButOne(n) == n >= Sources - 1
AllFetched(n) == n = Sources

\* the jobs the adapters return
RunPool ==
    {Job(Str(<<"1">>), Str(<<"x">>), Str(<<"U", "X", " ", "i", "n">>), Absent,
         NoScore),
     Job(Str(<<"2">>), Str(<<"x">>), Str(<<"u", "x", " ", "i", "n">>),
         Str(<<"F", " ", "s", "u">>), NoScore),
     Job(Str(<<"3">>), Str(<<"y">>), Str(<<"u", "x">>), Absent, NoScore)}

InitRun ==
    /\ pc = "scrape"
    /\ config \in {KeywordFilterInit(raw) : raw \in RawConfigPool}
    /\ require_internship = TRUE
    /\ jobs = <<>>
    /\ filtered_jobs = <<>>
    /\ unique_jobs = <<>>
    /\ duplicates_found = 0
    /\ pos = 0
    /\ job1 = NoJob
    /\ job2 = NoJob
    /\ verdict = NoVerdict
    /\ scored = NoScored
    /\ JobIdle
    /\ CoreIdle
    /\ RunIdle
    /\ ExtIdle

\* scrape_all_sources: the next adapter returns its jobs, which are added
\* to all_jobs; after the last one all_jobs is returned to run
Fetch ==
    /\ pc = "scrape"
    /\ ~AllFetched(fetched)
    /\ \E batch \in {<<>>} \cup {<<r>> : r \in RunPool} :
           /\ Len(jobs) + Len(batch) <= MaxRunJobs
           /\ jobs' = jobs \o batch
    /\ fetched' = fetched + 1
    /\ stages' = Append(stages, "fetch")
    /\ pc' = IF AllFetched(fetched + 1) THEN "filter" ELSE "scrape"
    /\ UNCHANGED extVars
    /\ UNCHANGED <<unique_jobs, duplicates_found, pos, job1, job2, verdict,
                   config, require_internship, filtered_jobs, scored,
                   jobVars, coreVars, dedup_input, cache, readme,
                   exit_status>>

\* `if not all_jobs: return`, else InternshipScraper.filter_jobs:
\* filter_jobs(jobs, require_internship=True), then get_statistics
RunFilter ==
    /\ pc = "filter"
    /\ IF jobs = <<>>
       THEN /\ pc' = "returned"
            /\ UNCHANGED <<jobs, filtered_jobs, statistics, stages>>
       ELSE /\ LET r == filter_jobs(config, jobs, TRUE)
               IN /\ jobs' = r.jobs
                  /\ filtered_jobs' = r.filtered_jobs
                  /\ statistics' = get_statistics(JobsAt(r.jobs, r.filtered_jobs))
            /\ stages' = Append(stages, "filter")
            /\ pc' = "dedup"
    /\ UNCHANGED extVars
    /\ UNCHANGED <<unique_jobs, duplicates_found, pos, job1, job2, verdict,
                   config, require_internship, scored, jobVars, duplicates,
                   called, fetched, dedup_input, cache, readme, exit_status>>

\* `if not filtered_jobs: return`, else InternshipScraper.deduplicate_jobs
RunDedup ==
    /\ pc = "dedup"
    /\ IF filtered_jobs = <<>>
       THEN /\ pc' = "returned"
            /\ UNCHANGED <<dedup_input, unique_jobs, duplicates_found, stages>>
       ELSE /\ dedup_input' = JobsAt(jobs, filtered_jobs)
            /\ LET st == DedupFrom(JobsAt(jobs, filtered_jobs),
                             [unique_jobs |-> <<>>, duplicates_found |-> 0], 1)
               IN /\ unique_jobs' = st.unique_jobs
                  /\ duplicates_found' = st.duplicates_found
            /\ stages' = Append(stages, "dedup")
            /\ pc' = "save"
    /\ UNCHANGED extVars
    /\ UNCHANGED <<jobs, pos, job1, job2, verdict, config,
                   require_internship, filtered_jobs, scored, jobVars,
                   coreVars, fetched, cache, readme, exit_status>>

\* save_jobs_cache(unique_jobs)
SaveCache ==
    /\ pc = "save"
    /\ cache' = Written(JobsAt(dedup_input, unique_jobs))
    /\ stages' = Append(stages, "save")
    /\ pc' = "readme"
    /\ UNCHANGED extVars
    /\ UNCHANGED <<jobs, unique_jobs, duplicates_found, pos, job1, job2,
                   verdict, config, require_internship, filtered_jobs, scored,
                   jobVars, coreVars, fetched, dedup_input, readme,
                   exit_status>>

\* generate_readme(unique_jobs)
GenerateReadme ==
    /\ pc = "readme"
    /\ readme' = Written(JobsAt(dedup_input, unique_jobs))
    /\ stages' = Append(stages, "readme")
    /\ pc' = "notify"
    /\ UNCHANGED extVars
    /\ UNCHANGED <<jobs, unique_jobs, duplicates_found, pos, job1, job2,
                   verdict, config, require_internship, filtered_jobs, scored,
                   jobVars, coreVars, fetched, dedup_input, cache,
                   exit_status>>

\* the Supabase statistics, if any, then send_daily_reminder sends its
\* message (send_message catches what the webhook raises); run returns
SendReminder ==
    /\ pc = "notify"
    /\ stages' = Append(stages, "reminder")
    /\ pc' = "returned"
    /\ UNCHANGED extVars
    /\ UNCHANGED <<jobs, unique_jobs, duplicates_found, pos, job1, job2,
                   verdict, config, require_internship, filtered_jobs, scored,
                   jobVars, coreVars, fetched, dedup_input, cache, readme,
                   exit_status>>

\* sys.exit(1) of the exception handler of run
ErrorExit == 1

\* the exception handler of run: send_error_notification, then sys.exit(1)
\* ends the process
Handler_NoExit(log) ==
    [stages |-> Append(log, "error"), exit_status |-> 0, pc |-> "returned"]
Handler(log) ==
    [stages |-> Append(log, "error"), exit_status |-> ErrorExit,
     pc |-> "exited"]

\* `except Exception`: a statement of the try block raises (an adapter, the
\* filter, the deduplicator, a file write, or send_daily_reminder before it
\* sends its message); run sends the error notification and exits
RunFails ==
    /\ pc \in {"scrape", "filter", "dedup", "save", "readme", "notify"}
    /\ LET h == Handler(stages)
       IN /\ stages' = h.stages
          /\ exit_status' = h.exit_status
          /\ pc' = h.pc
    /\ UNCHANGED extVars
    /\ UNCHANGED <<jobs, unique_jobs, duplicates_found, pos, job1, job2,
                   verdict, config, require_internship, filtered_jobs, scored,
                   jobVars, coreVars, fetched, dedup_input, cache, readme>>

NextRun ==
    \/ Fetch
    \/ RunFilter
    \/ RunDedup
    \/ SaveCache
    \/ GenerateReadme
    \/ SendReminder
    \/ RunFails

SpecRun == InitRun /\ [][NextRun]_vars

----------------------------------------------------------------------------
(* Properties of the pipeline run (SpecRun).                               *)

\* the stages of a run that fails nowhere, in their order
StageOrder ==
    [n \in 1..17 |->
        IF n <= 12 THEN "fetch"
        ELSE <<"filter", "dedup", "save", "readme", "reminder">>[n - 12]]

\* the stages carried out, without the error notification of a failed run
Regular(log) ==
    IF log # <<>> /\ log[Len(log)] = "error"
    THEN SubSeq(log, 1, Len(log) - 1) ELSE log

\* stage name has been carried out
Done(name) == \E n \in 1..Len(stages) : stages[n] = name

\* C20: the stages of a run happen in the order fetch (twelve adapters),
\* filter, dedup, cache save, README, reminder, each at most once (the
\* error notification of a failed run is not one of these stages): the
\* filter runs after all twelve adapters have returned, on all their jobs;
\* deduplicate runs on the list the filter returned; and what is saved and
\* rendered is the list deduplicate returned.
C20_StagesInOrder ==
    /\ Len(Regular(stages)) <= 17
    /\ Regular(stages) = SubSeq(StageOrder, 1, Len(Regular(stages)))
    /\ Done("filter") => fetched = 12
    /\ Done("dedup") =>
           /\ Done("filter")
           /\ dedup_input = JobsAt(jobs, filtered_jobs)
    /\ ~Done("dedup") => ~cache.written /\ ~readme.written
    /\ cache.written =>
           Done("save") /\ cache.jobs = deduplicate(dedup_input)
    /\ readme.written =>
           Done("readme") /\ cache.written /\ readme.jobs = cache.jobs
    /\ Done("reminder") => readme.written

\* C20 witness: a run has carried out all its stages, on two jobs of which
\* deduplicate kept one.
C20_Witness ==
    /\ pc = "returned"
    /\ stages = StageOrder
    /\ Len(jobs) = 2
    /\ Len(dedup_input) = 2
    /\ Len(cache.jobs) = 1
    /\ readme.jobs = cache.jobs

----------------------------------------------------------------------------
(* The notifications of a pipeline run (SpecRun).                          *)

\* how often a stage has been carried out
Times(name) == Cardinality({n \in 1..Len(stages) : stages[n] = name})

\* C21: every run that ends without an exception (run returns) has called
\* send_daily_reminder exactly once, also when no job was scraped or no
\* relevant internship was found.
C21_ReminderAlwaysSent ==
    pc = "returned" => Times("reminder") = 1

\* C30: a run in which a stage raised has sent exactly one error
\* notification, as the last thing it did, has ended with exit status 1 and
\* has sent no daily reminder; a run that did not fail has sent no error
\* notification and has no exit status other than 0; so no run sends both
\* the reminder and the error notification.
C30_ErrorPath ==
    /\ Times("error") <= 1
    /\ Times("error") = 1 <=> pc = "exited"
    /\ pc = "exited" =>
           /\ stages[Len(stages)] = "error"
           /\ exit_status = ErrorExit
           /\ Times("reminder") = 0
    /\ pc # "exited" => exit_status = 0
    /\ Times("reminder") = 1 => Times("error") = 0 /\ pc = "returned"

\* C30 witness: a run failed after deduplicate had run (a file write or the
\* reminder raised), sent the error notification and exited with status 1.
C30_Witness ==
    /\ pc = "exited"
    /\ Done("dedup")
    /\ Times("error") = 1
    /\ exit_status = 1

----------------------------------------------------------------------------
(* SpecStartup: KeywordFilter.__init__ on what is at config_path, as       *)
(* InternshipScraper.__init__ calls it, then the scoring of jobs by the    *)
(* constructed filter.  A value of the YAML document is a record [k, v]:   *)
(* k is "absent" (no such key), "null", "list" (v holds its items, each a  *)
(* string or an integer) or "str" (v holds the characters of a string).    *)

YamlAbsent == [k |-> "absent", v |-> <<>>]
YamlNull == [k |-> "null", v |-> <<>>]
YamlList(items) == [k |-> "list", v |-> items]
YamlStr(chars) == [k |-> "str", v |-> chars]

\* the items of a YAML list: a string, or an integer
StrItem(chars) == [k |-> "str", s |-> chars]
IntItem == [k |-> "int", s |-> <<>>]

\* what is at config_path: no file, a file that is not YAML, an empty file
\* (safe_load returns None), a YAML list, or a YAML mapping
Document(kind, internship_keywords, include_title, minimum_match_score) ==
    [kind |-> kind,
     internship_keywords |-> internship_keywords,
     include_title |-> include_title,
     exclude_title |-> YamlAbsent,
     include_description |-> YamlList(<<StrItem(<<"f">>)>>),
     minimum_match_score |-> minimum_match_score]

\* `for k in value`: the items of a list, the characters of a string
Iterate(value) ==
    IF value.k = "str"
    THEN [i \in 1..Len(value.v) |-> StrItem(<<value.v[i]>>)]
    ELSE value.v

\* the exception `[k.lower() for k in self.config.get(key, [])]` raises on
\* the value of the key, or "" if it raises none
KeywordsError(value) ==
    CASE value.k = "absent" -> ""
      [] value.k = "null" -> "TypeError"
      [] \E i \in 1..Len(Iterate(value)) : Iterate(value)[i].k # "str" ->
             "AttributeError"
      [] OTHER -> ""

\* the strings self.config.get(key, []) yields
KeywordStrings(value) ==
    [i \in 1..Len(Iterate(value)) |-> Iterate(value)[i].s]

\* the mapping, as the strings KeywordFilterInit lower-cases
RawOf(doc) ==
    [internship_keywords |-> KeywordStrings(doc.internship_keywords),
     include_title |-> KeywordStrings(doc.include_title),
     exclude_title |-> KeywordStrings(doc.exclude_title),
     include_description |-> KeywordStrings(doc.include_description),
     minimum_match_score |-> doc.minimum_match_score]

Raised(error) == [ended |-> "raised", error |-> error]
Constructed == [ended |-> "constructed", error |-> ""]

\* the first exception the four list comprehensions raise, in their order
FirstError(errors) ==
    IF \A i \in 1..Len(errors) : errors[i] = "" THEN ""
    ELSE errors[CHOOSE i \in 1..Len(errors) :
                    /\ errors[i] # ""
                    /\ \A j \in 1..(i - 1) : errors[j] = ""]

\* KeywordFilter(): open, yaml.safe_load, then the attributes
KeywordFilterNew(doc) ==
    CASE doc.kind = "missing" ->
             [startup |-> Raised("FileNotFoundError"), config |-> NoConfig]
      [] doc.kind = "unparsable" ->
             [startup |-> Raised("YAMLError"), config |-> NoConfig]
      [] doc.kind \in {"empty", "sequence"} ->
             [startup |-> Raised("AttributeError"), config |-> NoConfig]
      [] OTHER ->
             LET error == FirstError(<<KeywordsError(doc.internship_keywords),
                                       KeywordsError(doc.include_title),
                                       KeywordsError(doc.exclude_title),
                                       KeywordsError(doc.include_description)>>)
             IN IF error # ""
                THEN [startup |-> Raised(error), config |-> NoConfig]
                ELSE [startup |-> Constructed,
                      config |-> KeywordFilterInit(RawOf(doc))]

\* the values of a keyword key in the documents tried
KeywordValuePool ==
    {YamlAbsent, YamlNull,
     YamlList(<<StrItem(<<"U", "X">>), StrItem(<<"i", "n">>)>>),
     YamlList(<<StrItem(<<"u", "x">>), IntItem>>),
     YamlStr(<<"U", "X">>)}

DocumentPool ==
    {Document(kind, YamlAbsent, YamlAbsent, NoScore) :
        kind \in {"missing", "unparsable", "empty", "sequence"}}
    \cup {Document("mapping", internship_keywords, include_title, minimum) :
            internship_keywords \in KeywordValuePool,
            include_title \in KeywordValuePool,
            minimum \in {NoScore, Score(3), Score(2)}}

StartupTitlePool ==
    {Str(<<"U", "X", " ", "i", "n">>), Str(<<"u", "x">>), Str(<<"x">>),
     Str(<<"i", "n">>)}

StartupPool ==
    {Job(Str(<<"1">>), Str(<<"x">>), title, description, NoScore) :
        title \in StartupTitlePool, description \in {Absent, Str(<<"F">>)}}

InitStartup ==
    /\ pc = "start"
    /\ document \in DocumentPool
    /\ startup = NotStarted
    /\ config = NoConfig
    /\ job1 = NoJob
    /\ scored = NoScored
    /\ job2 = NoJob
    /\ verdict = NoVerdict
    /\ jobs = <<>>
    /\ unique_jobs = <<>>
    /\ duplicates_found = 0
    /\ pos = 0
    /\ require_internship = FALSE
    /\ filtered_jobs = <<>>
    /\ JobIdle
    /\ CoreIdle
    /\ RunIdle
    /\ UploadIdle

\* InternshipScraper.__init__: self.filter = KeywordFilter(); an exception
\* of the constructor ends the process before run is called
Construct ==
    /\ pc = "start"
    /\ LET r == KeywordFilterNew(document)
       IN /\ startup' = r.startup
          /\ config' = r.config
          /\ pc' = IF r.startup.ended = "raised" THEN "raised" ELSE "ready"
    /\ UNCHANGED <<jobs, unique_jobs, duplicates_found, pos, job1, job2,
                   verdict, require_internship, filtered_jobs, scored,
                   document, jobVars, coreVars, runVars, uploadVars>>

\* the constructed filter scores a job and tests it against the threshold
ScoreJob ==
    /\ pc = "ready"
    /\ \E job \in StartupPool :
           /\ job1' = job
           /\ scored' = calculate_relevance_score(config, job)
           /\ relevant' = Returned(is_relevant(config, job))
    /\ pc' = "scored"
    /\ UNCHANGED <<jobs, unique_jobs, duplicates_found, pos, job2, verdict,
                   config, require_internship, filtered_jobs, internship,
                   startVars, coreVars, runVars, uploadVars>>

NextStartup == Construct \/ ScoreJob

SpecStartup == InitStartup /\ [][NextStartup]_vars

----------------------------------------------------------------------------
(* Properties of the construction (SpecStartup).                           *)

\* a keyword key holds what the configuration format allows: a list of
\* strings, or nothing
ListOfStrings(value) ==
    \/ value.k = "absent"
    \/ /\ value.k = "list"
       /\ \A i \in 1..Len(value.v) : value.v[i].k = "str"

\* the file exists and holds a configuration of the documented format
ValidDocument(doc) ==
    /\ doc.kind = "mapping"
    /\ ListOfStrings(doc.internship_keywords)
    /\ ListOfStrings(doc.include_title)
    /\ ListOfStrings(doc.exclude_title)
    /\ ListOfStrings(doc.include_description)

\* C22: a missing or invalid configuration file makes the construction of
\* the KeywordFilter raise, and then no job is scored; a configuration that
\* loads without minimum_match_score has the threshold 3.
C22_InvalidIsFatal ==
    pc # "start" =>
        /\ ~ValidDocument(document) =>
               /\ startup.ended = "raised"
               /\ pc = "raised"
               /\ scored = NoScored
               /\ ~relevant.called
        /\ ValidDocument(document) => startup.ended = "constructed"
        /\ /\ startup.ended = "constructed"
           /\ document.minimum_match_score.k = "absent"
           => /\ config.minimum_score = 3
              /\ pc = "scored" => (relevant.result <=> scored.score >= 3)

----------------------------------------------------------------------------
(* SpecUpload: SupabaseUploader.upload_jobs (src/src/supabase_uploader.py) *)
(* on a table that holds some ids.  A request to the database returns or   *)
(* raises; the batch upsert is one request, which stores every row or      *)
(* none; the fallback sends one request per job.                           *)

\* sanitize_value, then .get('id'): a NaN and a missing id become None
SanitizedId(raw) == IF raw.k \in {"nan", "absent"} THEN None ELSE raw

\* transform_job_for_database: the columns of the row; the id is the one
\* the upload counts by
transform_job_for_database(job) ==
    [id |-> SanitizedId(job.id), title |-> job.title, company |-> job.company]

\* transformed_jobs
TransformedJobs(L) == [i \in 1..Len(L) |-> transform_job_for_database(L[i])]

\* {job['id'] for job in transformed_jobs if job['id'] not in existing_ids}
NewJobIds(rows, existing) ==
    {rows[i].id : i \in 1..Len(rows)} \ existing

\* the ids of the rows of the table, and of the jobs uploaded
UploadIdPool == {Str(<<"1">>), Str(<<"2">>), Str(<<"3">>)}

UploadPool == {Job(id, Str(<<"x">>), Str(<<"u", "x">>), Absent, Score(3)) :
                   id \in UploadIdPool}

InitUpload ==
    /\ pc = "lookup"
    /\ jobs \in SeqUpTo(UploadPool, MaxUploadJobs)
    /\ database \in SUBSET UploadIdPool
    /\ stored_before = database
    /\ existing_ids = {}
    /\ new_jobs_count = 0
    /\ uploaded_count = 0
    /\ error_count = 0
    /\ upload_at = 0
    /\ upload_result = NoResult
    /\ config = NoConfig
    /\ job1 = NoJob
    /\ scored = NoScored
    /\ job2 = NoJob
    /\ verdict = NoVerdict
    /\ unique_jobs = <<>>
    /\ duplicates_found = 0
    /\ pos = 0
    /\ require_internship = FALSE
    /\ filtered_jobs = <<>>
    /\ JobIdle
    /\ CoreIdle
    /\ RunIdle
    /\ StartIdle

\* upload_jobs up to the batch upsert: `if not jobs: return 0`, the lookup
\* of the stored ids (which returns them, or raises and leaves the empty
\* set), the transformation and the count of the new ids
UploadLookup ==
    /\ pc = "lookup"
    /\ IF jobs = <<>>
       THEN /\ upload_result' = [returned |-> TRUE, value |-> 0]
            /\ pc' = "returned"
            /\ UNCHANGED <<existing_ids, new_jobs_count>>
       ELSE /\ \E raises \in BOOLEAN :
                  LET existing == IF raises THEN {} ELSE database
                  IN /\ existing_ids' = existing
                     /\ new_jobs_count' =
                            Cardinality(NewJobIds(TransformedJobs(jobs),
                                                  existing))
            /\ pc' = "batch"
            /\ UNCHANGED upload_result
    /\ UNCHANGED <<jobs, unique_jobs, duplicates_found, pos, job1, job2,
                   verdict, config, require_internship, filtered_jobs, scored,
                   database, stored_before, uploaded_count, error_count,
                   upload_at, jobVars, coreVars, runVars, startVars>>

\* the batch upsert returns: every row is stored, and upload_jobs returns
\* self.new_jobs_count
UploadBatch ==
    /\ pc = "batch"
    /\ database' = database \cup
           {TransformedJobs(jobs)[i].id : i \in 1..Len(jobs)}
    /\ uploaded_count' = Len(jobs)
    /\ upload_result' = [returned |-> TRUE, value |-> new_jobs_count]
    /\ pc' = "returned"
    /\ UNCHANGED <<jobs, unique_jobs, duplicates_found, pos, job1, job2,
                   verdict, config, require_internship, filtered_jobs, scored,
                   stored_before, existing_ids, new_jobs_count, error_count,
                   upload_at, jobVars, coreVars, runVars, startVars>>

\* the batch upsert raises: no row is stored, and upload_jobs falls back to
\* _upload_jobs_individually
UploadBatchFails ==
    /\ pc = "batch"
    /\ upload_at' = 1
    /\ pc' = "individual"
    /\ UNCHANGED <<jobs, unique_jobs, duplicates_found, pos, job1, job2,
                   verdict, config, require_internship, filtered_jobs, scored,
                   database, stored_before, existing_ids, new_jobs_count,
                   uploaded_count, error_count, upload_result, jobVars,
                   coreVars, runVars, startVars>>

\* one iteration of _upload_jobs_individually: the upsert of the job stores
\* its row, or raises and is counted as an error; after the last job
\* upload_jobs returns self.new_jobs_count
UploadIndividually ==
    /\ pc = "individual"
    /\ \E raises \in BOOLEAN :
           IF raises
           THEN /\ error_count' = error_count + 1
                /\ UNCHANGED <<database, uploaded_count>>
           ELSE /\ database' = database \cup
                       {TransformedJobs(jobs)[upload_at].id}
                /\ uploaded_count' = uploaded_count + 1
                /\ UNCHANGED error_count
    /\ IF upload_at = Len(jobs)
       THEN /\ upload_result' = [returned |-> TRUE, value |-> new_jobs_count]
            /\ pc' = "returned"
            /\ UNCHANGED upload_at
       ELSE /\ upload_at' = upload_at + 1
            /\ UNCHANGED <<pc, upload_result>>
    /\ UNCHANGED <<jobs, unique_jobs, duplicates_found, pos, job1, job2,
                   verdict, config, require_internship, filtered_jobs, scored,
                   stored_before, existing_ids, new_jobs_count, jobVars,
                   coreVars, runVars, startVars>>

NextUpload ==
    \/ UploadLookup
    \/ UploadBatch
    \/ UploadBatchFails
    \/ UploadIndividually

SpecUpload == InitUpload /\ [][NextUpload]_vars

----------------------------------------------------------------------------
(* Properties of the upload (SpecUpload).                                  *)

\* the ids this call inserted: stored now and not stored when it was called
NewlyInserted == database \ stored_before

\* C23: the number upload_jobs returns is the number of rows this call
\* inserted (ids not stored before the call and stored after it), whether
\* the lookup, the batch upsert and the fallback uploads return or raise.
C23_ReturnsNewlyInserted ==
    upload_result.returned =>
        upload_result.value = Cardinality(NewlyInserted)

----------------------------------------------------------------------------
(* SpecAgree: find_duplicates and deduplicate called on the same list, in  *)
(* either order.                                                           *)

\* jobs of one company; the ratio of the two long titles is 6/7 in one
\* order of the arguments and 4/7 in the other
AgreePool ==
    {Job(id, Str(<<"x">>), title, Absent, score) :
        id \in IdPool,
        title \in {Str(<<"a", "a", "a", "a", "a", "b", "a">>),
                   Str(<<"a", "a", "b", "a", "a", "a", "b">>),
                   Str(<<"a", "b", "c">>)},
        score \in {NoScore, Score(1)}}

InitAgree ==
    /\ pc = "core"
    /\ jobs \in SeqUpTo(AgreePool, MaxCoreJobs)
    /\ config = NoConfig
    /\ require_internship = FALSE
    /\ filtered_jobs = <<>>
    /\ unique_jobs = <<>>
    /\ duplicates_found = 0
    /\ statistics = NoStatistics
    /\ duplicates = <<>>
    /\ called = {}
    /\ pos = 0
    /\ job1 = NoJob
    /\ job2 = NoJob
    /\ verdict = NoVerdict
    /\ scored = NoScored
    /\ JobIdle
    /\ RunIdle
    /\ ExtIdle

NextAgree == FindDuplicates \/ CoreDeduplicate

SpecAgree == InitAgree /\ [][NextAgree]_vars

\* C29: find_duplicates returns the empty list exactly when deduplicate
\* returns its input unchanged (the same jobs in the same order).
C29_FindAndDedupAgree ==
    {"find_duplicates", "deduplicate"} \subseteq called =>
        (duplicates = <<>> <=> Output = jobs)

====
